---------------------------- MODULE Spec2Model ----------------------------
(***************************************************************************)
(* State-machine model of the strategy decision engine of kis-trader       *)
(* (src/auto_trade.py): one scheduled run evaluates exits for all          *)
(* holdings, then entries for all configured targets, and keeps three      *)
(* ledgers on disk (trailing highs, cooldowns, trade log).                 *)
(*                                                                         *)
(* Numbers.  Prices are whole dollars.  A quotient the code compares with  *)
(* a threshold is kept as a pair [n, d] (value n/d, d > 0) and compared by *)
(* cross-multiplication, so no rounding is introduced.  Time is counted in *)
(* whole hours; a run takes no measurable time (every broker request has a *)
(* 10 s timeout, cooldowns are counted in hours).                          *)
(*                                                                         *)
(* Environment.  The broker account changes only through the orders the    *)
(* engine submits; a filled buy re-averages the position's cost.  Quotes,  *)
(* price histories, buying power and request failures are inputs chosen    *)
(* afresh at every request.  Ledger files are read and written without     *)
(* I/O failures.                                                           *)
(*                                                                         *)
(* Steps.  A run advances from one ledger file access or broker request to *)
(* the next: each ledger call is a load step followed by the step that     *)
(* works on the loaded copy and writes it back.  With one run at a time    *)
(* the steps of a handler follow each other without choice; with two runs  *)
(* in progress they interleave at exactly these points.                    *)
(*                                                                         *)
(* Specifications.  Spec: scheduled runs, one after the other.             *)
(* SpecOverlap: a run started while another is in progress.  SpecManual:   *)
(* the holder of the account also closes positions by hand.  SpecRough:    *)
(* runs on irregular data, that is a position reported                     *)
(* without its average cost, a cooldown record without a readable          *)
(* timestamp.  SpecReported: the balance inquiry may leave the return of   *)
(* a position out.  SpecLog: runs on a trade log that is nearly full.      *)
(* SpecForeign: the account holds a symbol that is not configured.         *)
(* SpecOrders: the order functions under either value of IS_REAL_TRADING.  *)
(* SpecLive: runs without end, under fairness.  SpecApply: single          *)
(* functions applied once to arguments drawn from bounded sets.            *)
(***************************************************************************)
EXTENDS Integers, Sequences, FiniteSets, TLC

VARIABLES
    now,            \* wall clock, hours
    runs,           \* number of runs started so far
    account,        \* broker: symbol -> [qty, avg]; qty = 0 when not held
    trailing,       \* TRAILING_STOP_FILE: symbol -> high_price (partial)
    cooldown,       \* COOLDOWN_FILE: symbol -> [triggered_at, reason] (partial)
    history,        \* TRADE_HISTORY_FILE: sequence of trade records
    pc,             \* run -> position of the run in main()
    holdings,       \* run -> holdings still to evaluate in the exit loop
    exit_results,   \* run -> results list of check_exit_conditions
    buy_results,    \* run -> buy_results list of main
    loc,            \* run -> ledger copy loaded by the ledger call in progress
    cur,            \* run -> locals of the holding or target in progress
    calls,          \* run -> broker requests made by the handler in progress
    sent,           \* run -> notifier messages sent by the handler in progress
    life,           \* symbol -> high-water observations of the open lifecycle
    arg,            \* arguments of a function applied on its own
    out             \* what the function returned for arg

vars == <<now, runs, account, trailing, cooldown, history, pc, holdings,
          exit_results, buy_results, loc, cur, calls, sent, life, arg, out>>

---------------------------------------------------------------------------
(* Bounds of the model *)

MaxRuns == 2
MaxGap == 4

\* prices the broker may report for a holding: below both stop-losses, the
\* initial cost, past both trailing starts, past both take-profits
Prices == {95, 100, 108, 120}
\* prices the broker may quote to process_buy
Quotes == {95, 108}
\* buying power the broker may report
Funds == {50, 250}
\* positions held when the engine is first run
InitQty == 2
InitAvg == 100

Runs == {1, 2}
Symbols == {"VRT", "ORCL", "F"}
\* the order in which the broker lists holdings
SymbolOrder == <<"VRT", "ORCL", "F">>

---------------------------------------------------------------------------
(* Configuration *)

TARGETS ==
    << [symbol |-> "VRT", exchange |-> "NYS", strategy |-> "pullback",
        take_profit |-> 10, stop_loss |-> -5, use_sma60 |-> TRUE,
        trailing_start |-> 7, trailing_stop |-> 5, cooldown_hours |-> 4],
       [symbol |-> "ORCL", exchange |-> "NYS", strategy |-> "breakout",
        take_profit |-> 7, stop_loss |-> -4, max_rsi |-> 70,
        trailing_start |-> 5, trailing_stop |-> 3, cooldown_hours |-> 2,
        scout_enabled |-> TRUE, scout_rsi |-> 40,
        scout_ratio |-> [n |-> 1, d |-> 2]] >>

\* max_rsi = 0 stands for None (both are false in "if max_rsi:")
DefaultConfig ==
    [symbol |-> "", exchange |-> "NYS", strategy |-> "pullback",
     take_profit |-> 10, stop_loss |-> -5, use_sma60 |-> FALSE,
     max_rsi |-> 0, trailing_start |-> 5, trailing_stop |-> 3,
     cooldown_hours |-> 2, scout_enabled |-> FALSE, scout_rsi |-> 40,
     scout_num |-> 1, scout_den |-> 2]

\* target.get(key, default)
Get(target, key, default) ==
    IF key \in DOMAIN target THEN target[key] ELSE default

\* lines 536-549: the configuration of one entry of TARGETS, every key
\* that is absent taking its default
target_config(target) ==
    [k \in DOMAIN DefaultConfig |->
        IF k = "symbol" THEN target.symbol
        ELSE IF k = "scout_num"
        THEN Get(target, "scout_ratio", [n |-> 1, d |-> 2]).n
        ELSE IF k = "scout_den"
        THEN Get(target, "scout_ratio", [n |-> 1, d |-> 2]).d
        ELSE Get(target, k, DefaultConfig[k])]

\* the configurations of the entries of TARGETS, by symbol
TargetConfigs ==
    [s \in {TARGETS[i].symbol : i \in 1..Len(TARGETS)} |->
        target_config(
            TARGETS[CHOOSE i \in 1..Len(TARGETS) : TARGETS[i].symbol = s])]

\* variant: a symbol that is not configured is given the first target's
\* configuration
get_target_config_first(symbol) ==
    IF symbol \in DOMAIN TargetConfigs THEN TargetConfigs[symbol]
    ELSE TargetConfigs[TARGETS[1].symbol]

\* lines 534-563: the first entry for the symbol, or the defaults
get_target_config(symbol) ==
    IF symbol \in DOMAIN TargetConfigs THEN TargetConfigs[symbol]
    ELSE DefaultConfig

---------------------------------------------------------------------------
(* Helpers on numbers and partial maps *)

Max(a, b) == IF a >= b THEN a ELSE b

Rat(n, d) == [some |-> TRUE, n |-> n, d |-> d]
None == [some |-> FALSE, n |-> 0, d |-> 1]
\* Python truthiness of an optional number
Truthy(x) == x.some /\ x.n # 0

Put(f, k, v) == [x \in DOMAIN f \cup {k} |-> IF x = k THEN v ELSE f[x]]
Del(f, k) == [x \in DOMAIN f \ {k} |-> f[x]]
Empty == [x \in {} |-> 0]

RECURSIVE SumTo(_, _)
SumTo(s, k) == IF k = 0 THEN 0 ELSE s[k] + SumTo(s, k - 1)

---------------------------------------------------------------------------
(* Trailing-stop ledger *)

\* update_high_price on the loaded ledger `data`: the ledger to keep, whether
\* it is written back, and the returned high
update_high_price(data, symbol, current_price, avg_price) ==
    LET d1 == IF symbol \in DOMAIN data THEN data
              ELSE Put(data, symbol, avg_price)
    IN  IF current_price > d1[symbol]
        THEN [data |-> Put(d1, symbol, current_price), saved |-> TRUE,
              high |-> current_price]
        ELSE [data |-> d1, saved |-> FALSE, high |-> d1[symbol]]

\* variant: the record is left in place
clear_trailing_stop_data_kept(data, symbol) ==
    [data |-> data, saved |-> FALSE]

clear_trailing_stop_data(data, symbol) ==
    IF symbol \in DOMAIN data
    THEN [data |-> Del(data, symbol), saved |-> TRUE]
    ELSE [data |-> data, saved |-> FALSE]

---------------------------------------------------------------------------
(* Cooldown ledger *)

\* variant: no record is written
set_cooldown_lost(data, symbol, reason, t) == data

set_cooldown(data, symbol, reason, t) ==
    Put(data, symbol, [triggered_at |-> t, reason |-> reason])

\* variant: never cooling, ledger untouched
check_cooldown_open(data, symbol, cooldown_hours, t) ==
    [cooling |-> FALSE, data |-> data, saved |-> FALSE]

\* variant: every record counts as elapsed and is deleted
check_cooldown_expiring(data, symbol, cooldown_hours, t) ==
    IF symbol \notin DOMAIN data
    THEN [cooling |-> FALSE, data |-> data, saved |-> FALSE]
    ELSE [cooling |-> FALSE, data |-> Del(data, symbol), saved |-> TRUE]

\* variant: an elapsed record is kept in the ledger
check_cooldown_kept(data, symbol, cooldown_hours, t) ==
    IF symbol \notin DOMAIN data
    THEN [cooling |-> FALSE, data |-> data, saved |-> FALSE]
    ELSE [cooling |-> t - data[symbol].triggered_at < cooldown_hours,
          data |-> data, saved |-> FALSE]

\* variant: a record never expires
check_cooldown_frozen(data, symbol, cooldown_hours, t) ==
    [cooling |-> symbol \in DOMAIN data, data |-> data, saved |-> FALSE]

\* variant: a record is deleted only after more than cooldown_hours
check_cooldown_strict(data, symbol, cooldown_hours, t) ==
    IF symbol \notin DOMAIN data
    THEN [cooling |-> FALSE, data |-> data, saved |-> FALSE]
    ELSE IF t - data[symbol].triggered_at > cooldown_hours
         THEN [cooling |-> FALSE, data |-> Del(data, symbol), saved |-> TRUE]
         ELSE [cooling |-> TRUE, data |-> data, saved |-> FALSE]

\* check_cooldown on the loaded ledger `data` at time t
check_cooldown(data, symbol, cooldown_hours, t) ==
    IF symbol \notin DOMAIN data
    THEN [cooling |-> FALSE, data |-> data, saved |-> FALSE]
    ELSE IF t - data[symbol].triggered_at >= cooldown_hours
         THEN [cooling |-> FALSE, data |-> Del(data, symbol), saved |-> TRUE]
         ELSE [cooling |-> TRUE, data |-> data, saved |-> FALSE]

\* line 413: the record of `symbol` carries no timestamp that
\* datetime.fromisoformat accepts (kept as a negative triggered_at), and
\* check_cooldown raises
Unreadable(data, symbol) ==
    symbol \in DOMAIN data /\ data[symbol].triggered_at < 0

---------------------------------------------------------------------------
(* Indicators; prices[1] is the most recent close *)

\* variant: the mean of the oldest `period` closes
calculate_sma_oldest(prices, period) ==
    IF Len(prices) < period THEN Rat(0, 1)
    ELSE Rat(SumTo(prices, Len(prices)) - SumTo(prices, Len(prices) - period),
             period)

\* lines 441-445
calculate_sma(prices, period) ==
    IF Len(prices) < period THEN Rat(0, 1)
    ELSE Rat(SumTo(prices, period), period)

RECURSIVE GainSum(_, _)
GainSum(prices, k) ==
    IF k = 0 THEN 0
    ELSE (IF prices[k] - prices[k + 1] > 0 THEN prices[k] - prices[k + 1]
          ELSE 0) + GainSum(prices, k - 1)

RECURSIVE LossSum(_, _)
LossSum(prices, k) ==
    IF k = 0 THEN 0
    ELSE (IF prices[k] - prices[k + 1] > 0 THEN 0
          ELSE prices[k + 1] - prices[k]) + LossSum(prices, k - 1)

\* variant: the losses are weighed against the gains
calculate_rsi_inverted(prices, period) ==
    IF Len(prices) < period + 1 THEN Rat(50, 1)
    ELSE IF LossSum(prices, period) = 0 THEN Rat(100, 1)
    ELSE Rat(100 * LossSum(prices, period),
             GainSum(prices, period) + LossSum(prices, period))

\* 100 - 100 / (1 + avg_gain / avg_loss) = 100 * gains / (gains + losses)
calculate_rsi(prices, period) ==
    IF Len(prices) < period + 1 THEN Rat(50, 1)
    ELSE IF LossSum(prices, period) = 0 THEN Rat(100, 1)
    ELSE Rat(100 * GainSum(prices, period),
             GainSum(prices, period) + LossSum(prices, period))

\* get_daily_prices: the first `days` closes of what the broker holds
get_daily_prices(h, days) ==
    [i \in 1..(IF Len(h) < days THEN Len(h) ELSE days) |-> h[i]]

---------------------------------------------------------------------------
(* Entry signal *)

\* variant: the pullback rule without the long-trend filter
check_buy_conditions_unfiltered(current_price, sma_20, strategy, sma_60, rsi, use_sma60, max_rsi, scout_enabled, scout_rsi) ==
    IF sma_20.n = 0
    THEN [buy |-> FALSE, reason |-> "no_sma", type |-> "NONE"]
    ELSE IF strategy = "pullback"
    THEN IF current_price * sma_20.d >= sma_20.n
         THEN [buy |-> FALSE, reason |-> "above_sma20", type |-> "NONE"]
         ELSE [buy |-> TRUE, reason |-> "pullback_ok", type |-> "REGULAR"]
    ELSE IF strategy = "breakout"
    THEN IF scout_enabled /\ Truthy(rsi) /\ rsi.n < scout_rsi * rsi.d
         THEN [buy |-> TRUE, reason |-> "scout_ok", type |-> "SCOUT"]
         ELSE IF current_price * sma_20.d <= sma_20.n
         THEN [buy |-> FALSE, reason |-> "below_sma20", type |-> "NONE"]
         ELSE IF max_rsi # 0 /\ Truthy(rsi) /\ rsi.n >= max_rsi * rsi.d
         THEN [buy |-> FALSE, reason |-> "overbought", type |-> "NONE"]
         ELSE [buy |-> TRUE, reason |-> "breakout_ok", type |-> "REGULAR"]
    ELSE [buy |-> FALSE, reason |-> "unknown_strategy", type |-> "NONE"]

\* variant: the breakout rule without the overbought ceiling
check_buy_conditions_no_ceiling(current_price, sma_20, strategy, sma_60, rsi, use_sma60, max_rsi, scout_enabled, scout_rsi) ==
    IF sma_20.n = 0
    THEN [buy |-> FALSE, reason |-> "no_sma", type |-> "NONE"]
    ELSE IF strategy = "pullback"
    THEN IF current_price * sma_20.d >= sma_20.n
         THEN [buy |-> FALSE, reason |-> "above_sma20", type |-> "NONE"]
         ELSE IF use_sma60 /\ Truthy(sma_60)
                 /\ current_price * sma_60.d < sma_60.n
         THEN [buy |-> FALSE, reason |-> "long_downtrend", type |-> "NONE"]
         ELSE [buy |-> TRUE, reason |-> "pullback_ok", type |-> "REGULAR"]
    ELSE IF strategy = "breakout"
    THEN IF scout_enabled /\ Truthy(rsi) /\ rsi.n < scout_rsi * rsi.d
         THEN [buy |-> TRUE, reason |-> "scout_ok", type |-> "SCOUT"]
         ELSE IF current_price * sma_20.d <= sma_20.n
         THEN [buy |-> FALSE, reason |-> "below_sma20", type |-> "NONE"]
         ELSE [buy |-> TRUE, reason |-> "breakout_ok", type |-> "REGULAR"]
    ELSE [buy |-> FALSE, reason |-> "unknown_strategy", type |-> "NONE"]

\* sma_20, sma_60, rsi are optional numbers; max_rsi = 0 stands for None
check_buy_conditions(current_price, sma_20, strategy, sma_60, rsi, use_sma60, max_rsi, scout_enabled, scout_rsi) ==
    IF sma_20.n = 0
    THEN [buy |-> FALSE, reason |-> "no_sma", type |-> "NONE"]
    ELSE IF strategy = "pullback"
    THEN IF current_price * sma_20.d >= sma_20.n
         THEN [buy |-> FALSE, reason |-> "above_sma20", type |-> "NONE"]
         ELSE IF use_sma60 /\ Truthy(sma_60)
                 /\ current_price * sma_60.d < sma_60.n
         THEN [buy |-> FALSE, reason |-> "long_downtrend", type |-> "NONE"]
         ELSE [buy |-> TRUE, reason |-> "pullback_ok", type |-> "REGULAR"]
    ELSE IF strategy = "breakout"
    THEN IF scout_enabled /\ Truthy(rsi) /\ rsi.n < scout_rsi * rsi.d
         THEN [buy |-> TRUE, reason |-> "scout_ok", type |-> "SCOUT"]
         ELSE IF current_price * sma_20.d <= sma_20.n
         THEN [buy |-> FALSE, reason |-> "below_sma20", type |-> "NONE"]
         ELSE IF max_rsi # 0 /\ Truthy(rsi) /\ rsi.n >= max_rsi * rsi.d
         THEN [buy |-> FALSE, reason |-> "overbought", type |-> "NONE"]
         ELSE [buy |-> TRUE, reason |-> "breakout_ok", type |-> "REGULAR"]
    ELSE [buy |-> FALSE, reason |-> "unknown_strategy", type |-> "NONE"]

---------------------------------------------------------------------------
(* Exit decision *)

\* variant: the trailing rule is tried before the stop-loss rule
ExitDecision_trailing_first(h, high, config) ==
    IF h.pr_n >= config.take_profit * h.pr_d THEN "TAKE_PROFIT"
    ELSE IF (high - h.avg_price) * 100 >= config.trailing_start * h.avg_price
            /\ (high - h.current_price) * 100 >= config.trailing_stop * high
    THEN "TRAILING_STOP"
    ELSE IF h.pr_n <= config.stop_loss * h.pr_d THEN "STOP_LOSS"
    ELSE "HOLD"

\* variant: the trailing rule needs the drop alone
ExitDecision_drop_only(h, high, config) ==
    IF h.pr_n >= config.take_profit * h.pr_d THEN "TAKE_PROFIT"
    ELSE IF h.pr_n <= config.stop_loss * h.pr_d THEN "STOP_LOSS"
    ELSE IF (high - h.current_price) * 100 >= config.trailing_stop * high
    THEN "TRAILING_STOP"
    ELSE "HOLD"

\* variant: every exit is followed by a cooldown
NeedsCooldown_any(action_type) == TRUE

\* line 654: the exits that start a cooldown
NeedsCooldown(action_type) ==
    action_type \in {"STOP_LOSS", "TRAILING_STOP"}

\* lines 612-624: the first matching rule; h is the holding, high the value
\* returned by update_high_price
ExitDecision(h, high, config) ==
    IF h.pr_n >= config.take_profit * h.pr_d THEN "TAKE_PROFIT"
    ELSE IF h.pr_n <= config.stop_loss * h.pr_d THEN "STOP_LOSS"
    ELSE IF (high - h.avg_price) * 100 >= config.trailing_start * h.avg_price
            /\ (high - h.current_price) * 100 >= config.trailing_stop * high
    THEN "TRAILING_STOP"
    ELSE "HOLD"

---------------------------------------------------------------------------
(* Inputs the broker may supply *)

\* price histories, most recent close first
HShort == [i \in 1..10 |-> 100]
HMonth == [i \in 1..30 |-> 100]
HFlat == [i \in 1..60 |-> 100]
HFall == [i \in 1..60 |-> 89 + i]
HRecover == [i \in 1..60 |-> IF i <= 20 THEN 100 ELSE 85]
HZig == [i \in 1..60 |-> IF i % 2 = 1 THEN 100 ELSE 102]
HDip == [i \in 1..60 |-> IF i % 2 = 1 THEN 100 + (i - 1) \div 2
                                       ELSE 102 + (i - 2) \div 2]
Histories == {HShort, HMonth, HFlat, HFall, HRecover, HZig, HDip}
\* seventeen closes, each lower than the one before
HBrief == [i \in 1..17 |-> 89 + i]
\* histories an entry evaluation on its own is given
EntryHistories == Histories \cup {HBrief}

\* evlu_pfls_rt as the broker reports it: the position's return, or absent
\* (read as 0 by get_holdings)
RateModes == {"exact", "missing"}

ReportedRate(mode, current_price, avg_price) ==
    IF mode = "exact"
    THEN [n |-> (current_price - avg_price) * 100, d |-> avg_price]
    ELSE [n |-> 0, d |-> 1]

\* a filled market buy of n shares at price p
Fill(pos, n, p) ==
    [qty |-> pos.qty + n,
     avg |-> (pos.qty * pos.avg + n * p) \div (pos.qty + n)]

Flat == [qty |-> 0, avg |-> 0]

---------------------------------------------------------------------------
(* Result records *)

\* of a result dict the model keeps the keys a later step reads; reason is
\* "cooldown" for the cooldown message and "signal" for a signal's reason
Result(symbol, action, type, quantity, reason) ==
    [symbol |-> symbol, action |-> action, buy_type |-> type,
     quantity |-> quantity, reason |-> reason]

\* variant: a sell that raised is recorded under the exit's own action
ErrorAction_plain(action_type) == action_type

\* line 663: the action of a sell that raised
ErrorAction(action_type) ==
    CASE action_type = "TAKE_PROFIT" -> "TAKE_PROFIT_ERROR"
      [] action_type = "STOP_LOSS" -> "STOP_LOSS_ERROR"
      [] OTHER -> "TRAILING_STOP_ERROR"

NoHolding ==
    [symbol |-> "", quantity |-> 0, avg_price |-> 0, current_price |-> 0,
     pr_n |-> 0, pr_d |-> 1]

NoLocals == [h |-> NoHolding, high |-> 0, action |-> "", tix |-> 0]

NoLife == [open |-> FALSE, seed |-> 0, peak |-> 0, ret |-> 0]

\* no function is being applied on its own
NoArg == [fn |-> ""]
NoOut == [fn |-> ""]

TRADE_CAP == 100

LoggedActions == {"BUY", "TAKE_PROFIT", "STOP_LOSS", "TRAILING_STOP"}

\* timestamp, price and profit_rate of a record are written and never read
\* back by the engine; the model keeps symbol, action and quantity
TradeRecord(res) ==
    [symbol |-> res.symbol, action |-> res.action,
     quantity |-> res.quantity]

\* variant: the cap keeps the oldest records
save_trade_history_head(old, results) ==
    LET keep == SelectSeq(results, LAMBDA x : x.action \in LoggedActions)
        all == old \o [i \in 1..Len(keep) |-> TradeRecord(keep[i])]
    IN  IF Len(all) <= TRADE_CAP THEN all ELSE SubSeq(all, 1, TRADE_CAP)

\* save_trade_history: append the loggable results, keep the last 100
save_trade_history(old, results) ==
    LET keep == SelectSeq(results, LAMBDA x : x.action \in LoggedActions)
        all == old \o [i \in 1..Len(keep) |-> TradeRecord(keep[i])]
    IN  IF Len(all) <= TRADE_CAP THEN all
        ELSE SubSeq(all, Len(all) - TRADE_CAP + 1, Len(all))

\* indicators process_buy computes from a history cut to `days` closes
Indicators ==
    [h \in EntryHistories |-> [days \in {20, 60} |->
        [sma_20 |-> calculate_sma(get_daily_prices(h, days), 20),
         sma_60 |-> calculate_sma(get_daily_prices(h, days), 60),
         rsi |-> calculate_rsi(get_daily_prices(h, days), 14)]]]

\* the request of process_buy that fails, if any
Faults == {"none", "quote", "history", "balance", "order_insufficient",
           "order_rejected", "order_transport"}

---------------------------------------------------------------------------
(* Notifier *)

\* what a call of SlackBot.send meets: SLACK_WEBHOOK_URL set or not, and the
\* answer of the webhook
NotifierConditions ==
    [webhook : BOOLEAN, reply : {"200", "204", "500", "timeout"}]

\* variant: a transport error leaves send as an exception
send_raising(c) ==
    [ret |-> c.webhook /\ c.reply = "200",
     raised |-> c.webhook /\ c.reply = "timeout"]

\* SlackBot.send, lines 299-313: the value returned and whether the call
\* raised
send(c) ==
    IF ~c.webhook THEN [ret |-> FALSE, raised |-> FALSE]
    ELSE IF c.reply = "timeout" THEN [ret |-> FALSE, raised |-> FALSE]
    ELSE [ret |-> c.reply = "200", raised |-> FALSE]

\* some call of send raises.  No caller reads the value send returns; an
\* exception would leave the handler that called it, and the handlers that
\* catch it (lines 660, 673, 824, 965) call send again
SendRaises == \E c \in NotifierConditions : send(c).raised

---------------------------------------------------------------------------
(* Initial state *)

TypeOK ==
    /\ now \in Nat
    /\ runs \in 0..MaxRuns
    /\ DOMAIN account = Symbols
    /\ DOMAIN trailing \subseteq Symbols
    /\ DOMAIN cooldown \subseteq Symbols
    /\ \A r \in Runs : pc[r] \in {"idle", "get_holdings", "load_trailing",
            "update_high_price", "load_clear", "clear_trailing_stop_data",
            "load_set", "set_cooldown", "load_cooldown", "process_buy",
            "summary"}

InitRun ==
    /\ pc = [r \in Runs |-> "idle"]
    /\ holdings = [r \in Runs |-> <<>>]
    /\ exit_results = [r \in Runs |-> <<>>]
    /\ buy_results = [r \in Runs |-> <<>>]
    /\ loc = [r \in Runs |-> Empty]
    /\ cur = [r \in Runs |-> NoLocals]
    /\ calls = [r \in Runs |-> {}]
    /\ sent = [r \in Runs |-> {}]

\* ledgers empty (no file yet); each target held or not
Init ==
    /\ now = 0
    /\ runs = 0
    /\ account \in [Symbols -> {Flat, [qty |-> InitQty, avg |-> InitAvg]}]
    /\ account["F"] = Flat
    /\ trailing = Empty
    /\ cooldown = Empty
    /\ history = <<>>
    /\ life = [s \in Symbols |-> NoLife]
    /\ InitRun
    /\ arg = NoArg
    /\ out = NoOut

---------------------------------------------------------------------------
(* main: start of a run, authentication *)

Active == {r \in Runs : pc[r] # "idle"}

\* hours since the previous run started.  The clock is read only to stamp and
\* to age cooldown records, so with an empty ledger one gap stands for all.
Gaps(together, data) ==
    IF together THEN {0}
    ELSE IF data = Empty THEN {1}
    ELSE 1..MaxGap

\* variant: a failed authentication is notified and the run goes on
StartRun_unauthenticated(r, overlap) ==
    /\ pc[r] = "idle"
    /\ runs < MaxRuns
    /\ overlap \/ Active = {}
    /\ runs' = runs + 1
    /\ \E d \in Gaps(runs = 0 \/ Active # {}, cooldown) : now' = now + d
    /\ holdings' = [holdings EXCEPT ![r] = <<>>]
    /\ exit_results' = [exit_results EXCEPT ![r] = <<>>]
    /\ buy_results' = [buy_results EXCEPT ![r] = <<>>]
    /\ loc' = [loc EXCEPT ![r] = Empty]
    /\ cur' = [cur EXCEPT ![r] = NoLocals]
    /\ calls' = [calls EXCEPT ![r] = {}]
    /\ pc' = [pc EXCEPT ![r] = "get_holdings"]
    /\ \/ sent' = [sent EXCEPT ![r] = {<<"start", "">>}]
       \/ sent' = [sent EXCEPT ![r] = {<<"start", "">>, <<"fatal", "">>}]
    /\ UNCHANGED <<account, trailing, cooldown, history, life>>
    /\ UNCHANGED <<arg, out>>

\* main, lines 873-906.  `overlap` allows a run to start while another is
\* in progress (a manual trigger during a scheduled run).
StartRun(r, overlap) ==
    /\ pc[r] = "idle"
    /\ runs < MaxRuns
    /\ overlap \/ Active = {}
    /\ runs' = runs + 1
    /\ \E d \in Gaps(runs = 0 \/ Active # {}, cooldown) : now' = now + d
    /\ holdings' = [holdings EXCEPT ![r] = <<>>]
    /\ exit_results' = [exit_results EXCEPT ![r] = <<>>]
    /\ buy_results' = [buy_results EXCEPT ![r] = <<>>]
    /\ loc' = [loc EXCEPT ![r] = Empty]
    /\ cur' = [cur EXCEPT ![r] = NoLocals]
    /\ calls' = [calls EXCEPT ![r] = {}]
    /\ \/ /\ pc' = [pc EXCEPT ![r] = "get_holdings"]
          /\ sent' = [sent EXCEPT ![r] = {<<"start", "">>}]
       \/ \* KisAuth() or get_access_token raises: notify, re-raise
          /\ pc' = [pc EXCEPT ![r] = "idle"]
          /\ sent' = [sent EXCEPT ![r] = {<<"start", "">>, <<"fatal", "">>}]
       \/ \* line 895 is outside the try: an exception of send ends main
          /\ SendRaises
          /\ pc' = [pc EXCEPT ![r] = "idle"]
          /\ sent' = [sent EXCEPT ![r] = {<<"start", "">>}]
    /\ UNCHANGED <<account, trailing, cooldown, history, life>>
    /\ UNCHANGED <<arg, out>>

---------------------------------------------------------------------------
(* check_exit_conditions *)

Held(acct) ==
    SelectSeq(SymbolOrder, LAMBDA s : acct[s].qty > 0)

\* where the run goes after the holding in progress
AfterHolding(r) ==
    IF Len(holdings[r]) > 1
    THEN /\ pc' = [pc EXCEPT ![r] = "load_trailing"]
         /\ holdings' = [holdings EXCEPT ![r] = Tail(holdings[r])]
    ELSE /\ pc' = [pc EXCEPT ![r] = "load_cooldown"]
         /\ holdings' = [holdings EXCEPT ![r] = <<>>]

\* variant: a failed holdings request ends the run
GetHoldings_fatal(r) ==
    /\ pc[r] = "get_holdings"
    /\ calls' = [calls EXCEPT ![r] = {<<"get_holdings", "">>}]
    /\ cur' = [cur EXCEPT ![r] = [NoLocals EXCEPT !.tix = 1]]
    /\ \/ /\ Held(account) # <<>>
          /\ holdings' = [holdings EXCEPT ![r] =
                [i \in 1..Len(Held(account)) |->
                    [symbol |-> Held(account)[i],
                     quantity |-> account[Held(account)[i]].qty,
                     avg_price |-> account[Held(account)[i]].avg]]]
          /\ pc' = [pc EXCEPT ![r] = "load_trailing"]
          /\ sent' = [sent EXCEPT ![r] = {}]
       \/ /\ Held(account) = <<>>
          /\ holdings' = holdings
          /\ pc' = [pc EXCEPT ![r] = "load_cooldown"]
          /\ sent' = [sent EXCEPT ![r] = {}]
       \/ \* the request raises and the run ends
          /\ holdings' = holdings
          /\ pc' = [pc EXCEPT ![r] = "idle"]
          /\ sent' = [sent EXCEPT ![r] = {<<"exit_error", "">>}]
       \/ \* the request raises and so does send at line 675
          /\ SendRaises
          /\ holdings' = holdings
          /\ pc' = [pc EXCEPT ![r] = "idle"]
          /\ sent' = [sent EXCEPT ![r] = {<<"exit_error", "">>}]
    /\ UNCHANGED <<now, runs, account, trailing, cooldown, history,
                   exit_results, buy_results, loc, life>>
    /\ UNCHANGED <<arg, out>>

\* lines 577-584: the holdings request; quantity and average cost are read
\* here, the price fields of a holding when it is evaluated
GetHoldings(r) ==
    /\ pc[r] = "get_holdings"
    /\ calls' = [calls EXCEPT ![r] = {<<"get_holdings", "">>}]
    /\ cur' = [cur EXCEPT ![r] = [NoLocals EXCEPT !.tix = 1]]
    /\ \/ /\ Held(account) # <<>>
          /\ holdings' = [holdings EXCEPT ![r] =
                [i \in 1..Len(Held(account)) |->
                    [symbol |-> Held(account)[i],
                     quantity |-> account[Held(account)[i]].qty,
                     avg_price |-> account[Held(account)[i]].avg]]]
          /\ pc' = [pc EXCEPT ![r] = "load_trailing"]
          /\ sent' = [sent EXCEPT ![r] = {}]
       \/ /\ Held(account) = <<>>
          /\ holdings' = holdings
          /\ pc' = [pc EXCEPT ![r] = "load_cooldown"]
          /\ sent' = [sent EXCEPT ![r] = {}]
       \/ \* the request raises: lines 673-675
          /\ holdings' = holdings
          /\ pc' = [pc EXCEPT ![r] = "load_cooldown"]
          /\ sent' = [sent EXCEPT ![r] = {<<"exit_error", "">>}]
       \/ \* the request raises and so does send at line 675
          /\ SendRaises
          /\ holdings' = holdings
          /\ pc' = [pc EXCEPT ![r] = "idle"]
          /\ sent' = [sent EXCEPT ![r] = {<<"exit_error", "">>}]
    /\ UNCHANGED <<now, runs, account, trailing, cooldown, history,
                   exit_results, buy_results, loc, life>>
    /\ UNCHANGED <<arg, out>>

\* load_trailing_stop_data / load_cooldown_data at the head of a ledger call
Load(r) ==
    /\ pc[r] \in {"load_trailing", "load_clear", "load_set", "load_cooldown"}
    /\ loc' = [loc EXCEPT ![r] =
            IF pc[r] \in {"load_trailing", "load_clear"} THEN trailing
            ELSE cooldown]
    /\ pc' = [pc EXCEPT ![r] =
            CASE pc[r] = "load_trailing" -> "update_high_price"
              [] pc[r] = "load_clear" -> "clear_trailing_stop_data"
              [] pc[r] = "load_set" -> "set_cooldown"
              [] OTHER -> "process_buy"]
    \* the locals of the previous holding are dead once the loop moves on
    /\ cur' = [cur EXCEPT ![r] =
            IF pc[r] \in {"load_trailing", "load_cooldown"}
            THEN [NoLocals EXCEPT !.tix = cur[r].tix] ELSE @]
    /\ UNCHANGED <<now, runs, account, trailing, cooldown, history, holdings,
                   exit_results, buy_results, calls, sent, life>>
    /\ UNCHANGED <<arg, out>>

\* the high-water observations of a lifecycle after one more observation
Observe(l, current_price, avg_price, high) ==
    IF l.open
    THEN [l EXCEPT !.peak = Max(l.peak, current_price), !.ret = high]
    ELSE [open |-> TRUE, seed |-> avg_price,
          peak |-> Max(avg_price, current_price), ret |-> high]

\* lines 584-663 for the next holding, from the loaded trailing ledger up to
\* the sell order
EvaluateHolding(r, env) ==
    /\ pc[r] = "update_high_price"
    /\ \E p \in env.prices, mode \in env.modes :
        LET h0 == Head(holdings[r])
            rate == ReportedRate(mode, p, h0.avg_price)
            h == [symbol |-> h0.symbol, quantity |-> h0.quantity,
                  avg_price |-> h0.avg_price, current_price |-> p,
                  pr_n |-> rate.n, pr_d |-> rate.d]
            config == get_target_config(h.symbol)
            u == update_high_price(loc[r], h.symbol, p, h.avg_price)
            action_type == ExitDecision(h, u.high, config)
        IN  /\ trailing' = IF u.saved THEN u.data ELSE trailing
            /\ \/ \* line 600 divides by an average cost of 0: the error
                  \* leaves the loop and is caught at lines 673-675
                  /\ h.avg_price = 0
                  /\ pc' = [pc EXCEPT ![r] = "load_cooldown"]
                  /\ holdings' = [holdings EXCEPT ![r] = <<>>]
                  /\ calls' = [calls EXCEPT ![r] = {}]
                  /\ sent' = [sent EXCEPT ![r] = {<<"exit_error", "">>}]
                  /\ UNCHANGED <<account, exit_results, cur, life>>
               \/ /\ h.avg_price # 0
                  /\ action_type = "HOLD"
                  /\ cur' = [cur EXCEPT ![r].h = h, ![r].high = u.high,
                                         ![r].action = action_type]
                  /\ AfterHolding(r)
                  /\ life' = [life EXCEPT ![h.symbol] =
                                Observe(@, p, h.avg_price, u.high)]
                  /\ calls' = [calls EXCEPT ![r] = {}]
                  /\ sent' = [sent EXCEPT ![r] = {}]
                  /\ UNCHANGED <<account, exit_results>>
               \/ \* sell_market_order succeeds: lines 631-648
                  /\ h.avg_price # 0
                  /\ action_type # "HOLD"
                  /\ cur' = [cur EXCEPT ![r].h = h, ![r].high = u.high,
                                         ![r].action = action_type]
                  /\ calls' = [calls EXCEPT ![r] =
                                {<<"sell_market_order", h.symbol>>}]
                  /\ account' = [account EXCEPT ![h.symbol] = Flat]
                  /\ sent' = [sent EXCEPT ![r] = {<<"exit", h.symbol>>}]
                  /\ exit_results' = [exit_results EXCEPT ![r] = Append(@,
                        Result(h.symbol, action_type, "NONE", h.quantity, ""))]
                  /\ pc' = [pc EXCEPT ![r] = "load_clear"]
                  /\ life' = [life EXCEPT ![h.symbol] = NoLife]
                  /\ holdings' = holdings
               \/ \* sell_market_order raises: lines 660-663
                  /\ h.avg_price # 0
                  /\ action_type # "HOLD"
                  /\ cur' = [cur EXCEPT ![r].h = h, ![r].high = u.high,
                                         ![r].action = action_type]
                  /\ calls' = [calls EXCEPT ![r] =
                                {<<"sell_market_order", h.symbol>>}]
                  /\ sent' = [sent EXCEPT ![r] = {<<"sell_error", h.symbol>>}]
                  /\ exit_results' = [exit_results EXCEPT ![r] = Append(@,
                        Result(h.symbol, ErrorAction(action_type), "NONE", 0, ""))]
                  /\ AfterHolding(r)
                  /\ life' = [life EXCEPT ![h.symbol] =
                                Observe(@, p, h.avg_price, u.high)]
                  /\ account' = account
               \/ \* the sell is filled and send raises at line 641: no result
                  \* is appended, the ledgers are not cleaned, main ends
                  /\ SendRaises
                  /\ h.avg_price # 0
                  /\ action_type # "HOLD"
                  /\ calls' = [calls EXCEPT ![r] =
                                {<<"sell_market_order", h.symbol>>}]
                  /\ account' = [account EXCEPT ![h.symbol] = Flat]
                  /\ sent' = [sent EXCEPT ![r] = {<<"exit", h.symbol>>}]
                  /\ pc' = [pc EXCEPT ![r] = "idle"]
                  /\ life' = [life EXCEPT ![h.symbol] = NoLife]
                  /\ UNCHANGED <<exit_results, cur, holdings>>
               \/ \* an error is met and send raises at line 662 or 675
                  /\ SendRaises
                  /\ h.avg_price = 0 \/ action_type # "HOLD"
                  /\ calls' = [calls EXCEPT ![r] = {}]
                  /\ sent' = [sent EXCEPT ![r] = {<<"exit_error", "">>}]
                  /\ pc' = [pc EXCEPT ![r] = "idle"]
                  /\ UNCHANGED <<account, exit_results, cur, holdings, life>>
    /\ UNCHANGED <<now, runs, cooldown, history, buy_results, loc>>
    /\ UNCHANGED <<arg, out>>

\* line 651, after a successful sell
ClearTrailing(r) ==
    /\ pc[r] = "clear_trailing_stop_data"
    /\ LET c == clear_trailing_stop_data(loc[r], cur[r].h.symbol)
       IN  trailing' = IF c.saved THEN c.data ELSE trailing
    /\ IF NeedsCooldown(cur[r].action)
       THEN /\ pc' = [pc EXCEPT ![r] = "load_set"]
            /\ holdings' = holdings
       ELSE AfterHolding(r)
    /\ UNCHANGED <<now, runs, account, cooldown, history, exit_results,
                   buy_results, loc, cur, calls, sent, life>>
    /\ UNCHANGED <<arg, out>>

\* lines 654-655
SetCooldown(r) ==
    /\ pc[r] = "set_cooldown"
    /\ cooldown' = set_cooldown(loc[r], cur[r].h.symbol, cur[r].action, now)
    /\ AfterHolding(r)
    /\ UNCHANGED <<now, runs, account, trailing, history, exit_results,
                   buy_results, loc, cur, calls, sent, life>>
    /\ UNCHANGED <<arg, out>>

---------------------------------------------------------------------------
(* process_buy *)

\* lines 717-719
DaysNeeded(config) ==
    LET d == IF config.use_sma60 THEN 60 ELSE 20
    IN  IF config.max_rsi # 0 THEN Max(d, 15) ELSE d

\* variant: a scout buy is sized like a regular one
OrderQuantity_unscaled(buy_type, f, q, config) == f \div q

\* lines 776-781: int(available_usd / current_price), scout_ratio applied
\* first
OrderQuantity(buy_type, f, q, config) ==
    IF buy_type = "SCOUT"
    THEN (f * config.scout_num) \div (config.scout_den * q)
    ELSE f \div q

\* variant: every failed order is a generic error
OrderFailure_generic(fault) == "ERROR"

\* lines 813-819, 824-827: a ValueError whose text names the balance (fault
\* order_insufficient) is a NO_BALANCE result; any other failure of the
\* order is re-raised and becomes ERROR
OrderFailure(fault) ==
    IF fault = "order_insufficient" THEN "NO_BALANCE" ELSE "ERROR"

\* variant: a target that is held is passed over
BuyOutcome_unheld_only(symbol, config, pos, q, h, f, fault) ==
    LET ind == Indicators[h][DaysNeeded(config)]
        sma_60 == IF config.use_sma60 THEN ind.sma_60 ELSE None
        rsi == IF config.max_rsi # 0 THEN ind.rsi ELSE None
        sig == check_buy_conditions(q, ind.sma_20, config.strategy, sma_60,
                    rsi, config.use_sma60, config.max_rsi,
                    config.scout_enabled, config.scout_rsi)
        final_quantity == OrderQuantity(sig.type, f, q, config)
        c1 == {<<"get_current_price", symbol>>}
        c2 == c1 \cup {<<"get_daily_prices", symbol>>}
        c3 == c2 \cup {<<"check_buy_conditions", symbol>>}
        c4 == c3 \cup {<<"get_order_amount", symbol>>}
        c5 == c4 \cup {<<"buy_market_order", symbol>>}
        err == {<<"error", symbol>>}
        Out(ok, res, p, c, m) ==
            [valid |-> ok, res |-> res, pos |-> p, calls |-> c, sent |-> m]
    IN  IF pos.qty > 0
        THEN Out(fault = "none",
                 Result(symbol, "SKIP", "NONE", 0, "signal"), pos, {}, {})
        ELSE IF fault = "quote"
        THEN Out(TRUE, Result(symbol, "ERROR", "NONE", 0, ""), pos, c1, err)
        ELSE IF fault = "history"
        THEN Out(TRUE, Result(symbol, "ERROR", "NONE", 0, ""), pos, c2, err)
        ELSE IF ~sig.buy
        THEN Out(fault = "none",
                 Result(symbol, "SKIP", "NONE", 0, "signal"), pos, c3, {})
        ELSE IF fault = "balance"
        THEN Out(TRUE, Result(symbol, "ERROR", "NONE", 0, ""), pos, c4, {})
        ELSE IF final_quantity < 1
        THEN Out(fault = "none",
                 Result(symbol, "NO_BALANCE", sig.type, 0, "signal"),
                 pos, c4, {})
        ELSE IF fault = "none"
        THEN Out(TRUE,
                 Result(symbol, "BUY", sig.type, final_quantity, "signal"),
                 Fill(pos, final_quantity, q), c5, {<<"buy", symbol>>})
        ELSE IF OrderFailure(fault) = "NO_BALANCE"
        THEN Out(TRUE,
                 Result(symbol, "NO_BALANCE", sig.type, 0, "signal"),
                 pos, c5, {})
        ELSE Out(TRUE, Result(symbol, "ERROR", "NONE", 0, ""), pos, c5, err)

\* lines 709-827 once the symbol is known not to be cooling: the result, the
\* position afterwards, the broker requests made and the messages sent, for
\* quote q, history h, buying power f and failing request `fault`.
\* valid is FALSE when `fault` names a request that is never reached.
BuyOutcome(symbol, config, pos, q, h, f, fault) ==
    LET ind == Indicators[h][DaysNeeded(config)]
        sma_60 == IF config.use_sma60 THEN ind.sma_60 ELSE None
        rsi == IF config.max_rsi # 0 THEN ind.rsi ELSE None
        sig == check_buy_conditions(q, ind.sma_20, config.strategy, sma_60,
                    rsi, config.use_sma60, config.max_rsi,
                    config.scout_enabled, config.scout_rsi)
        final_quantity == OrderQuantity(sig.type, f, q, config)
        c1 == {<<"get_current_price", symbol>>}
        c2 == c1 \cup {<<"get_daily_prices", symbol>>}
        c3 == c2 \cup {<<"check_buy_conditions", symbol>>}
        c4 == c3 \cup {<<"get_order_amount", symbol>>}
        c5 == c4 \cup {<<"buy_market_order", symbol>>}
        err == {<<"error", symbol>>}
        Out(ok, res, p, c, m) ==
            [valid |-> ok, res |-> res, pos |-> p, calls |-> c, sent |-> m]
    IN  IF fault = "quote"
        THEN Out(TRUE, Result(symbol, "ERROR", "NONE", 0, ""), pos, c1, err)
        ELSE IF fault = "history"
        THEN Out(TRUE, Result(symbol, "ERROR", "NONE", 0, ""), pos, c2, err)
        ELSE IF ~sig.buy
        THEN Out(fault = "none",
                 Result(symbol, "SKIP", "NONE", 0, "signal"), pos, c3, {})
        ELSE IF fault = "balance"
        THEN Out(TRUE, Result(symbol, "ERROR", "NONE", 0, ""), pos, c4, {})
        ELSE IF final_quantity < 1
        THEN Out(fault = "none",
                 Result(symbol, "NO_BALANCE", sig.type, 0, "signal"),
                 pos, c4, {})
        ELSE IF fault = "none"
        THEN Out(TRUE,
                 Result(symbol, "BUY", sig.type, final_quantity, "signal"),
                 Fill(pos, final_quantity, q), c5, {<<"buy", symbol>>})
        ELSE IF OrderFailure(fault) = "NO_BALANCE"
        THEN Out(TRUE,
                 Result(symbol, "NO_BALANCE", sig.type, 0, "signal"),
                 pos, c5, {})
        ELSE Out(TRUE, Result(symbol, "ERROR", "NONE", 0, ""), pos, c5, err)

\* process_buy returns `res`; main appends it and moves to the next target
BuyDone(r, res, symbol, pos, c, m) ==
    /\ buy_results' = [buy_results EXCEPT ![r] = Append(@, res)]
    /\ account' = [account EXCEPT ![symbol] = pos]
    /\ calls' = [calls EXCEPT ![r] = c]
    /\ sent' = [sent EXCEPT ![r] = m]
    /\ IF cur[r].tix < Len(TARGETS)
       THEN /\ pc' = [pc EXCEPT ![r] = "load_cooldown"]
            /\ cur' = [cur EXCEPT ![r].tix = @ + 1]
       ELSE /\ pc' = [pc EXCEPT ![r] = "summary"]
            /\ cur' = cur

\* process_buy for TARGETS[tix], lines 683-827, from the loaded cooldown
\* ledger on
ProcessBuy(r, env) ==
    /\ pc[r] = "process_buy"
    /\ LET symbol == TARGETS[cur[r].tix].symbol
           config == get_target_config(symbol)
           cc == check_cooldown(loc[r], symbol, config.cooldown_hours, now)
       IN  \/ \* line 413 raises ahead of the try of line 709: main's handler
              \* (lines 965-969) notifies and re-raises, the run is over
              /\ Unreadable(loc[r], symbol)
              /\ pc' = [pc EXCEPT ![r] = "idle"]
              /\ calls' = [calls EXCEPT ![r] = {}]
              /\ sent' = [sent EXCEPT ![r] = {<<"fatal", "">>}]
              /\ UNCHANGED <<account, cooldown, buy_results, cur>>
           \/ /\ ~Unreadable(loc[r], symbol)
              /\ cooldown' = IF cc.saved THEN cc.data ELSE cooldown
              /\ \/ /\ cc.cooling
                    /\ BuyDone(r, Result(symbol, "SKIP", "NONE", 0,
                                         "cooldown"),
                               symbol, account[symbol], {}, {})
                 \/ /\ ~cc.cooling
                    /\ \E fault \in env.faults, q \in env.quotes,
                          h \in env.histories, f \in env.funds :
                           LET o == BuyOutcome(symbol, config,
                                               account[symbol], q, h, f,
                                               fault)
                           IN  /\ o.valid
                               /\ \/ BuyDone(r, o.res, symbol, o.pos,
                                             o.calls, o.sent)
                                  \/ \* send raises at line 808 or 826:
                                     \* no result is returned, main ends
                                     /\ SendRaises
                                     /\ o.sent # {}
                                     /\ account' =
                                          [account EXCEPT ![symbol] = o.pos]
                                     /\ calls' =
                                          [calls EXCEPT ![r] = o.calls]
                                     /\ sent' = [sent EXCEPT ![r] = o.sent]
                                     /\ pc' = [pc EXCEPT ![r] = "idle"]
                                     /\ UNCHANGED <<buy_results, cur>>
    /\ UNCHANGED <<now, runs, trailing, history, holdings, exit_results, loc,
                   life>>
    /\ UNCHANGED <<arg, out>>

---------------------------------------------------------------------------
(* main: summary and trade log *)

\* lines 924-950: exits get a line only for TAKE_PROFIT and STOP_LOSS, every
\* buy result gets one
SummaryLines(exits, buys) ==
    {<<"exit_line", exits[i].symbol>> :
        i \in {j \in 1..Len(exits) :
                exits[j].action \in {"TAKE_PROFIT", "STOP_LOSS"}}}
    \cup {<<"buy_line", buys[i].symbol>> : i \in 1..Len(buys)}

\* lines 919-963
Finish(r) ==
    /\ pc[r] = "summary"
    /\ sent' = [sent EXCEPT ![r] = {<<"summary", "">>}
                    \cup SummaryLines(exit_results[r], buy_results[r])]
    /\ calls' = [calls EXCEPT ![r] = {}]
    /\ \/ history' = save_trade_history(history,
                            exit_results[r] \o buy_results[r])
       \/ \* send raises at line 956: the trade log is not written
          /\ SendRaises
          /\ history' = history
    /\ pc' = [pc EXCEPT ![r] = "idle"]
    /\ UNCHANGED <<now, runs, account, trailing, cooldown, holdings,
                   exit_results, buy_results, loc, cur, life>>
    /\ UNCHANGED <<arg, out>>

---------------------------------------------------------------------------
(* Specifications *)

\* positions of a run inside check_exit_conditions
ExitPhase ==
    {"get_holdings", "load_trailing", "update_high_price", "load_clear",
     "clear_trailing_stop_data", "load_set", "set_cooldown"}

\* what the broker may answer during a run
Market ==
    [modes |-> {"exact"}, prices |-> Prices, quotes |-> Quotes,
     histories |-> Histories, funds |-> Funds, faults |-> Faults]

\* a market with every request answered, for runs that overlap
Calm ==
    [modes |-> {"exact"}, prices |-> {95, 108}, quotes |-> {95},
     histories |-> {HShort, HMonth}, funds |-> {250}, faults |-> {"none"}]

Step(r, overlap, env) ==
    \/ StartRun(r, overlap)
    \/ GetHoldings(r)
    \/ Load(r)
    \/ EvaluateHolding(r, env)
    \/ ClearTrailing(r)
    \/ SetCooldown(r)
    \/ ProcessBuy(r, env)
    \/ Finish(r)

\* scheduled runs, one after the other
Next == Step(1, FALSE, Market)

Spec == Init /\ [][Next]_vars

\* a run triggered by hand while a scheduled run is in progress: each step
\* of either run is one ledger file access or one broker request
NextOverlap == \E r \in Runs : Step(r, TRUE, Calm)

SpecOverlap == Init /\ [][NextOverlap]_vars

\* the account holder closes the position in s at the broker, outside the
\* engine, while no exit phase is in progress; the engine is not told
ExternalClose(s) ==
    /\ account[s].qty > 0
    /\ \A r \in Runs : pc[r] \notin ExitPhase
    /\ account' = [account EXCEPT ![s] = Flat]
    /\ life' = [life EXCEPT ![s] = NoLife]
    /\ UNCHANGED <<now, runs, trailing, cooldown, history, pc, holdings,
                   exit_results, buy_results, loc, cur, calls, sent>>
    /\ UNCHANGED <<arg, out>>

\* scheduled runs on an account that its holder also trades by hand
NextManual ==
    \/ Step(1, FALSE, Calm)
    \/ \E s \in Symbols : ExternalClose(s)

SpecManual == Init /\ [][NextManual]_vars

---------------------------------------------------------------------------
(* Runs on irregular data *)

\* a market in which every request of process_buy may fail
Rough ==
    [modes |-> {"exact"}, prices |-> {95, 108}, quotes |-> {95},
     histories |-> {HMonth}, funds |-> {250}, faults |-> Faults]

\* as Init, and the broker may report a position without its average cost
\* (pchs_avg_pric absent or empty, read as 0 at line 228)
InitRough ==
    /\ now = 0
    /\ runs = 0
    /\ account \in [Symbols -> {Flat, [qty |-> InitQty, avg |-> InitAvg],
                                [qty |-> InitQty, avg |-> 0]}]
    /\ account["F"] = Flat
    /\ trailing = Empty
    /\ cooldown = Empty
    /\ history = <<>>
    /\ life = [s \in Symbols |-> NoLife]
    /\ InitRun
    /\ arg = NoArg
    /\ out = NoOut

\* between two runs the cooldown file is edited outside the engine and the
\* record of s is left without a readable timestamp
EditCooldown(s) ==
    /\ Active = {}
    /\ runs < MaxRuns
    /\ ~Unreadable(cooldown, s)
    /\ cooldown' = Put(cooldown, s,
                       [triggered_at |-> -1, reason |-> "STOP_LOSS"])
    /\ UNCHANGED <<now, runs, account, trailing, history, pc, holdings,
                   exit_results, buy_results, loc, cur, calls, sent, life>>
    /\ UNCHANGED <<arg, out>>

NextRough ==
    \/ Step(1, FALSE, Rough)
    \/ \E i \in 1..Len(TARGETS) : EditCooldown(TARGETS[i].symbol)

SpecRough == InitRough /\ [][NextRough]_vars

---------------------------------------------------------------------------
(* Runs on an account with a position outside TARGETS *)

\* as Init, and the account holds F, which is not configured
InitForeign ==
    /\ now = 0
    /\ runs = 0
    /\ account \in [Symbols -> {Flat, [qty |-> InitQty, avg |-> InitAvg]}]
    /\ account["F"] = [qty |-> InitQty, avg |-> InitAvg]
    /\ trailing = Empty
    /\ cooldown = Empty
    /\ history = <<>>
    /\ life = [s \in Symbols |-> NoLife]
    /\ InitRun
    /\ arg = NoArg
    /\ out = NoOut

\* a market that moves a holding to each default threshold and buys nothing
Drift ==
    [modes |-> {"exact"}, prices |-> {95, 104, 108, 110}, quotes |-> {95},
     histories |-> {HShort}, funds |-> {250}, faults |-> {"none"}]

NextForeign == Step(1, FALSE, Drift)

SpecForeign == InitForeign /\ [][NextForeign]_vars

---------------------------------------------------------------------------
(* Runs on the balance as reported *)

\* a market in which the balance inquiry may leave evlu_pfls_rt out (line
\* 232 reads it as 0) and a holding is quoted below its stop-loss or 11%
\* above the initial cost
Reported ==
    [modes |-> RateModes, prices |-> {95, 111}, quotes |-> {95},
     histories |-> {HShort, HMonth}, funds |-> {250}, faults |-> {"none"}]

NextReported == Step(1, FALSE, Reported)

SpecReported == Init /\ [][NextReported]_vars

---------------------------------------------------------------------------
(* Scheduled runs without end *)

\* a market in which the engine sells at a loss or holds and never buys
\* (ten closes give no short average)
Quiet ==
    [modes |-> {"exact"}, prices |-> {95, 100}, quotes |-> {95},
     histories |-> {HShort}, funds |-> {250}, faults |-> {"none"}]

\* the longest cooldown of the configuration, in hours
MaxAge ==
    CHOOSE h \in {TargetConfigs[s].cooldown_hours : s \in DOMAIN TargetConfigs} :
        \A s \in DOMAIN TargetConfigs : TargetConfigs[s].cooldown_hours <= h

\* Between two runs the origin of time is moved forward and the run counter
\* set back, so that runs can go on for ever in a finite state space.  The
\* age of a record (line 415) is kept up to MaxAge hours, beyond which no
\* comparison with cooldown_hours (line 417) can tell two ages apart.
Rebase ==
    /\ Active = {}
    /\ runs = MaxRuns
    /\ runs' = MaxRuns - 1
    /\ now' = now - Max(0, now - MaxAge)
    /\ cooldown' = [s \in DOMAIN cooldown |->
            [cooldown[s] EXCEPT !.triggered_at =
                Max(0, @ - Max(0, now - MaxAge))]]
    /\ UNCHANGED <<account, trailing, history, pc, holdings, exit_results,
                   buy_results, loc, cur, calls, sent, life>>
    /\ UNCHANGED <<arg, out>>

NextLive ==
    \/ Step(1, FALSE, Quiet)
    \/ Rebase

\* the scheduler keeps triggering runs, a started run runs to its end, and
\* authentication does not fail for ever
SpecLive ==
    /\ Init
    /\ [][NextLive]_vars
    /\ WF_vars(NextLive)
    /\ SF_vars(StartRun(1, FALSE) /\ pc'[1] = "get_holdings")

---------------------------------------------------------------------------
(* Runs on a long trade log *)

\* the i-th record of a log written by earlier runs (numbered by quantity)
OldRecord(i) == [symbol |-> "VRT", action |-> "BUY", quantity |-> i]

\* as Init, with a trade log of 98 to 100 records on disk
InitLog ==
    /\ now = 0
    /\ runs = 0
    /\ account \in [Symbols -> {Flat, [qty |-> InitQty, avg |-> InitAvg]}]
    /\ account["F"] = Flat
    /\ trailing = Empty
    /\ cooldown = Empty
    /\ history \in {[i \in 1..n |-> OldRecord(i)] :
                        n \in (TRADE_CAP - 2)..TRADE_CAP}
    /\ life = [s \in Symbols |-> NoLife]
    /\ InitRun
    /\ arg = NoArg
    /\ out = NoOut

NextLog == Step(1, FALSE, Calm)

SpecLog == InitLog /\ [][NextLog]_vars

---------------------------------------------------------------------------
(* Order requests and the IS_REAL_TRADING switch *)

\* what the order endpoint answers to a POST: the order is taken, it is
\* refused (rt_cd other than "0"), or the HTTP request fails
OrderReplies == {"ok", "refused", "http_error"}

\* variant: the order is posted whatever the switch says
buy_market_order_live(real, reply) ==
    [posted |-> TRUE,
     ret |-> CASE reply = "ok" -> "real"
               [] reply = "refused" -> "ValueError"
               [] OTHER -> "HTTPError"]

\* auto_trade.py lines 167-204: what the call returns or raises, and whether
\* the order was posted
buy_market_order(real, reply) ==
    IF ~real THEN [posted |-> FALSE, ret |-> "simulation"]
    ELSE [posted |-> TRUE,
          ret |-> CASE reply = "ok" -> "real"
                    [] reply = "refused" -> "ValueError"
                    [] OTHER -> "HTTPError"]

\* auto_trade.py lines 255-292
sell_market_order(real, reply) ==
    IF ~real THEN [posted |-> FALSE, ret |-> "simulation"]
    ELSE [posted |-> TRUE,
          ret |-> CASE reply = "ok" -> "real"
                    [] reply = "refused" -> "ValueError"
                    [] OTHER -> "HTTPError"]

\* main_us.py lines 136-195; get_auth_headers (lines 70-73) raises without
\* a token, a failed request is re-raised as RuntimeError
buy_limit_order(real, token, reply) ==
    IF ~token THEN [posted |-> FALSE, ret |-> "ValueError"]
    ELSE IF ~real THEN [posted |-> FALSE, ret |-> "simulation"]
    ELSE [posted |-> TRUE,
          ret |-> CASE reply = "ok" -> "real"
                    [] reply = "refused" -> "ValueError"
                    [] OTHER -> "RuntimeError"]

\* order calls made in one life of the process
MaxCalls == 6

\* the program that runs and the value of its IS_REAL_TRADING
OrderArgs ==
    [fn : {"orders"}, program : {"auto_trade", "main_us"}, real : BOOLEAN]

\* no order has been requested: no token, nothing posted
NoOrders ==
    [fn |-> "orders", token |-> FALSE, posts |-> 0, n |-> 0, last |-> "",
     ret |-> ""]

InitOrders ==
    /\ now = 0
    /\ runs = 0
    /\ account = [s \in Symbols |-> Flat]
    /\ trailing = Empty
    /\ cooldown = Empty
    /\ history = <<>>
    /\ life = [s \in Symbols |-> NoLife]
    /\ InitRun
    /\ arg \in OrderArgs
    /\ out = NoOrders

\* the other variables are not touched by an order request
OrderFrame ==
    UNCHANGED <<now, runs, account, trailing, cooldown, history, pc, holdings,
                exit_results, buy_results, loc, cur, calls, sent, life, arg>>

\* get_access_token at the head of a run (auto_trade.py 897-903, main_us.py
\* 256-258): the token is kept, or the request fails and the run ends with
\* the token as it was
GetAccessToken ==
    /\ out.n < MaxCalls
    /\ \/ out' = [out EXCEPT !.token = TRUE, !.last = "get_access_token",
                             !.ret = "token"]
       \/ out' = [out EXCEPT !.last = "get_access_token",
                             !.ret = "RuntimeError"]
    /\ OrderFrame

\* the result of an order call is recorded
Ordered(name, o) ==
    out' = [out EXCEPT !.posts = IF o.posted THEN @ + 1 ELSE @,
                       !.n = @ + 1, !.last = name, !.ret = o.ret]

\* process_buy line 797, after the run has authenticated
BuyMarketOrder ==
    /\ arg.program = "auto_trade"
    /\ out.token
    /\ out.n < MaxCalls
    /\ \E reply \in OrderReplies :
            Ordered("buy_market_order", buy_market_order(arg.real, reply))
    /\ OrderFrame

\* check_exit_conditions line 631, after the run has authenticated
SellMarketOrder ==
    /\ arg.program = "auto_trade"
    /\ out.token
    /\ out.n < MaxCalls
    /\ \E reply \in OrderReplies :
            Ordered("sell_market_order", sell_market_order(arg.real, reply))
    /\ OrderFrame

\* main_us.py line 273, reached only after get_access_token has returned
BuyLimitOrder ==
    /\ arg.program = "main_us"
    /\ out.token
    /\ out.n < MaxCalls
    /\ \E reply \in OrderReplies :
            Ordered("buy_limit_order",
                    buy_limit_order(arg.real, out.token, reply))
    /\ OrderFrame

NextOrders ==
    \/ GetAccessToken
    \/ BuyMarketOrder
    \/ SellMarketOrder
    \/ BuyLimitOrder

SpecOrders == InitOrders /\ [][NextOrders]_vars

---------------------------------------------------------------------------
(* Entry evaluation on its own *)

\* arguments check_buy_conditions is applied to: prices on both sides of
\* the averages, the sentinels (0, None) and values on both sides of the
\* scout floor (40) and of the overbought ceiling (70)
SignalPrices == {90, 95, 100, 105}
ShortAverages == {Rat(0, 1), Rat(100, 1)}
LongAverages == {None, Rat(0, 1), Rat(95, 1)}
RsiValues ==
    {None, Rat(0, 1), Rat(30, 1), Rat(40, 1), Rat(50, 1), Rat(70, 1),
     Rat(80, 1)}
Strategies == {"pullback", "breakout", "momentum"}

SignalArgs ==
    [fn : {"check_buy_conditions"}, current_price : SignalPrices,
     sma_20 : ShortAverages, strategy : Strategies, sma_60 : LongAverages,
     rsi : RsiValues, use_sma60 : BOOLEAN, max_rsi : {0, 70},
     scout_enabled : BOOLEAN, scout_rsi : {40}]

\* what process_buy meets for a target that is not cooling and not held
EntryArgs ==
    {a \in [fn : {"process_buy"}, symbol : {"VRT", "ORCL"}, q : Quotes,
             h : EntryHistories, f : Funds, fault : Faults] :
        BuyOutcome(a.symbol, get_target_config(a.symbol), Flat, a.q, a.h,
                   a.f, a.fault).valid}

\* an entry of TARGETS written without key k
Without(target, k) == [x \in DOMAIN target \ {k} |-> target[x]]

\* the entries of TARGETS, and the same with one key of the strategy left
\* out
WrittenTargets ==
    {TARGETS[i] : i \in 1..Len(TARGETS)}
    \cup {Without(TARGETS[i], k) :
            i \in 1..Len(TARGETS),
            k \in {"strategy", "take_profit", "stop_loss"}}

\* a run whose TARGETS holds the one entry `target`, with the symbol held
\* (2 shares at 100, now at q) or not held (quote q, history h, funds f)
ConfigArgs ==
    [fn : {"get_target_config"}, target : WrittenTargets, q : Quotes,
     h : {HMonth, HFlat, HDip}, f : Funds]

\* cooldown ledgers: each target without a record, or with one written at
\* hour 0 or 2
CooldownLedgers ==
    {[s \in d |-> [triggered_at |-> f[s], reason |-> "STOP_LOSS"]] :
        d \in SUBSET {"VRT", "ORCL"}, f \in [{"VRT", "ORCL"} -> {0, 2}]}

\* check_cooldown called at hour 4 or 5 with a cooldown of 0, 2 or 4 hours
CooldownArgs ==
    [fn : {"check_cooldown"}, data : CooldownLedgers,
     symbol : {"VRT", "ORCL"}, cooldown_hours : {0, 2, 4}, t : {4, 5}]

\* close series and periods calculate_sma is applied to on its own
MaxLen == 4
MaxPeriod == 3
SmaCloses == {1, 2, 5}
SmaSeries == UNION {[1..n -> SmaCloses] : n \in 0..MaxLen}
SmaArgs == [fn : {"calculate_sma"}, prices : SmaSeries, period : 1..MaxPeriod]
\* calculate_rsi is applied to the same series and periods
RsiArgs == [fn : {"calculate_rsi"}, prices : SmaSeries, period : 1..MaxPeriod]

\* streamlit_app.py lines 20-23: the dashboard's own list of targets; extra
\* holds the words the dashboard looks for in the "extra" text
DashboardTargets ==
    << [symbol |-> "VRT", strategy |-> "pullback", extra |-> {"SMA60"}],
       [symbol |-> "ORCL", strategy |-> "breakout", extra |-> {"RSI"}] >>

\* streamlit_app.py lines 461-474: the buy signal the dashboard shows; the
\* three indicators are numbers, sma_60 is 0 with fewer than 60 closes
dashboard_signal(target, current_price, sma_20, sma_60, rsi) ==
    IF target.strategy = "pullback"
    THEN /\ current_price * sma_20.d < sma_20.n
         /\ ("SMA60" \in target.extra /\ sma_60.n > 0)
                => sma_20.n * sma_60.d > sma_60.n * sma_20.d
    ELSE /\ current_price * sma_20.d > sma_20.n
         /\ "RSI" \in target.extra => rsi.n < 70 * rsi.d

\* what the dashboard and the engine are given for one target
DashboardArgs ==
    [fn : {"dashboard"}, t : 1..Len(DashboardTargets),
     current_price : SignalPrices, sma_20 : ShortAverages,
     sma_60 : LongAverages \ {None}, rsi : RsiValues \ {None}]

InitApply ==
    /\ now = 0
    /\ runs = 0
    /\ account = [s \in Symbols |-> Flat]
    /\ trailing = Empty
    /\ cooldown = Empty
    /\ history = <<>>
    /\ life = [s \in Symbols |-> NoLife]
    /\ InitRun
    /\ arg \in SignalArgs \cup EntryArgs \cup ConfigArgs \cup CooldownArgs
                \cup SmaArgs \cup RsiArgs \cup DashboardArgs
    /\ out = NoOut

\* one call of check_buy_conditions, lines 481-525
ApplySignal ==
    /\ arg.fn = "check_buy_conditions"
    /\ out = NoOut
    /\ out' = [fn |-> arg.fn,
               sig |-> check_buy_conditions(arg.current_price, arg.sma_20,
                           arg.strategy, arg.sma_60, arg.rsi, arg.use_sma60,
                           arg.max_rsi, arg.scout_enabled, arg.scout_rsi)]
    /\ UNCHANGED <<now, runs, account, trailing, cooldown, history, pc,
                   holdings, exit_results, buy_results, loc, cur, calls,
                   sent, life, arg>>

\* one call of process_buy from its first broker request on, lines 709-827
ApplyEntry ==
    /\ arg.fn = "process_buy"
    /\ out = NoOut
    /\ out' = [fn |-> arg.fn,
               o |-> BuyOutcome(arg.symbol, get_target_config(arg.symbol),
                                Flat, arg.q, arg.h, arg.f, arg.fault)]
    /\ UNCHANGED <<now, runs, account, trailing, cooldown, history, pc,
                   holdings, exit_results, buy_results, loc, cur, calls,
                   sent, life, arg>>

\* get_target_config for the entry, then what check_exit_conditions
\* (lines 591-625) and process_buy decide with the configuration it returns
ApplyConfigured ==
    /\ arg.fn = "get_target_config"
    /\ out = NoOut
    /\ LET config == target_config(arg.target)
           held == [symbol |-> config.symbol, quantity |-> InitQty,
                    avg_price |-> InitAvg, current_price |-> arg.q,
                    pr_n |-> (arg.q - InitAvg) * 100, pr_d |-> InitAvg]
       IN  out' = [fn |-> arg.fn,
                   config |-> config,
                   exit |-> ExitDecision(held, Max(InitAvg, arg.q), config),
                   o |-> BuyOutcome(config.symbol, config, Flat, arg.q,
                                    arg.h, arg.f, "none")]
    /\ UNCHANGED <<now, runs, account, trailing, cooldown, history, pc,
                   holdings, exit_results, buy_results, loc, cur, calls,
                   sent, life, arg>>

\* one call of check_cooldown, lines 402-426
ApplyCooldown ==
    /\ arg.fn = "check_cooldown"
    /\ out = NoOut
    /\ out' = [fn |-> arg.fn,
               cc |-> check_cooldown(arg.data, arg.symbol,
                                     arg.cooldown_hours, arg.t)]
    /\ UNCHANGED <<now, runs, account, trailing, cooldown, history, pc,
                   holdings, exit_results, buy_results, loc, cur, calls,
                   sent, life, arg>>

\* one call of calculate_sma, lines 441-445
ApplySma ==
    /\ arg.fn = "calculate_sma"
    /\ out = NoOut
    /\ out' = [fn |-> arg.fn, sma |-> calculate_sma(arg.prices, arg.period)]
    /\ UNCHANGED <<now, runs, account, trailing, cooldown, history, pc,
                   holdings, exit_results, buy_results, loc, cur, calls,
                   sent, life, arg>>

\* one call of calculate_rsi, lines 448-478
ApplyRsi ==
    /\ arg.fn = "calculate_rsi"
    /\ out = NoOut
    /\ out' = [fn |-> arg.fn, rsi |-> calculate_rsi(arg.prices, arg.period)]
    /\ UNCHANGED <<now, runs, account, trailing, cooldown, history, pc,
                   holdings, exit_results, buy_results, loc, cur, calls,
                   sent, life, arg>>

\* the dashboard's signal for a target next to the engine's decision for
\* the same symbol and numbers (process_buy lines 729-764 pass the long
\* average and the RSI only when the configuration asks for them)
ApplyDashboard ==
    /\ arg.fn = "dashboard"
    /\ out = NoOut
    /\ LET target == DashboardTargets[arg.t]
           config == get_target_config(target.symbol)
       IN  out' = [fn |-> arg.fn,
                   shown |-> dashboard_signal(target, arg.current_price,
                                arg.sma_20, arg.sma_60, arg.rsi),
                   sig |-> check_buy_conditions(arg.current_price,
                                arg.sma_20, config.strategy,
                                IF config.use_sma60 THEN arg.sma_60 ELSE None,
                                IF config.max_rsi # 0 THEN arg.rsi ELSE None,
                                config.use_sma60, config.max_rsi,
                                config.scout_enabled, config.scout_rsi)]
    /\ UNCHANGED <<now, runs, account, trailing, cooldown, history, pc,
                   holdings, exit_results, buy_results, loc, cur, calls,
                   sent, life, arg>>

NextApply ==
    \/ ApplyDashboard
    \/ ApplyRsi
    \/ ApplySignal
    \/ ApplyEntry
    \/ ApplyConfigured
    \/ ApplyCooldown
    \/ ApplySma

SpecApply == InitApply /\ [][NextApply]_vars

---------------------------------------------------------------------------
(* Properties: shared vocabulary *)

Last(s) == s[Len(s)]

Exits == {"TAKE_PROFIT", "STOP_LOSS", "TRAILING_STOP"}

\* the exit handler of holding cur[r].h has finished and its sell order was
\* filled
ExitDone(r) ==
    /\ pc[r] \in {"load_trailing", "load_cooldown"}
    /\ cur[r].action \in Exits
    /\ exit_results[r] # <<>>
    /\ Last(exit_results[r]).symbol = cur[r].h.symbol
    /\ Last(exit_results[r]).action = cur[r].action

\* cur[r] holds the locals of an exit evaluation
Evaluated(r) == cur[r].action \in Exits \cup {"HOLD"}

\* run r sold s in its exit phase
Exited(r, s) ==
    \E i \in 1..Len(exit_results[r]) :
        exit_results[r][i].symbol = s /\ exit_results[r][i].action \in Exits

StoppedOut(r, s) ==
    \E i \in 1..Len(exit_results[r]) :
        /\ exit_results[r][i].symbol = s
        /\ exit_results[r][i].action \in {"STOP_LOSS", "TRAILING_STOP"}

\* run r bought s in its entry phase
Bought(r, s) ==
    \E i \in 1..Len(buy_results[r]) :
        buy_results[r][i].symbol = s /\ buy_results[r][i].action = "BUY"

\* s has a cooldown record younger than its cooldown_hours
Cooling(s) ==
    /\ s \in DOMAIN cooldown
    /\ now - cooldown[s].triggered_at < get_target_config(s).cooldown_hours

TakeProfitRule(h, config) == h.pr_n >= config.take_profit * h.pr_d

StopLossRule(h, config) == h.pr_n <= config.stop_loss * h.pr_d

\* high_profit_rate >= trailing_start and drop_from_high >= trailing_stop
TrailingRule(h, high, config) ==
    /\ (high - h.avg_price) * 100 >= config.trailing_start * h.avg_price
    /\ (high - h.current_price) * 100 >= config.trailing_stop * high

---------------------------------------------------------------------------
(* C1 *)

\* a step of the handler of a take-profit exit whose sell order was filled
TakeProfitHandling(r) ==
    \/ /\ pc[r] = "update_high_price"
       /\ pc'[r] = "load_clear"
       /\ cur'[r].action = "TAKE_PROFIT"
    \/ /\ pc[r] \in {"load_clear", "clear_trailing_stop_data"}
       /\ cur[r].action = "TAKE_PROFIT"

C1_Step ==
    /\ TakeProfitHandling(1) => cooldown' = cooldown /\ pc'[1] # "load_set"
    /\ (ExitDone(1))' /\ cur'[1].action \in {"STOP_LOSS", "TRAILING_STOP"} =>
            /\ cur'[1].h.symbol \in DOMAIN cooldown'
            /\ cooldown'[cur'[1].h.symbol].reason = cur'[1].action

\* C1: no step of a successful TAKE_PROFIT exit changes the cooldown ledger
\* or leads to set_cooldown, and when a successful STOP_LOSS or TRAILING_STOP
\* exit finishes the ledger holds a record for the symbol whose reason is the
\* exit type.
C1_ExitCooldown == [][C1_Step]_vars

\* a trailing-stop exit has just left its record, after a take-profit exit of
\* another symbol in the same run left none
C1_Witness ==
    /\ ExitDone(1)
    /\ cur[1].action = "TRAILING_STOP"
    /\ cur[1].h.symbol \in DOMAIN cooldown
    /\ cooldown[cur[1].h.symbol].reason = "TRAILING_STOP"
    /\ \E i \in 1..Len(exit_results[1]) :
            /\ exit_results[1][i].action = "TAKE_PROFIT"
            /\ exit_results[1][i].symbol \notin DOMAIN cooldown

---------------------------------------------------------------------------
(* C2 *)

C2_Step ==
    pc[1] = "process_buy" /\ Cooling(TARGETS[cur[1].tix].symbol) =>
        /\ Len(buy_results'[1]) = Len(buy_results[1]) + 1
        /\ Last(buy_results'[1]).symbol = TARGETS[cur[1].tix].symbol
        /\ Last(buy_results'[1]).action = "SKIP"
        /\ calls'[1] = {}
        /\ account' = account

\* C2: process_buy for a symbol whose cooldown record is younger than its
\* cooldown_hours returns SKIP and makes no request at all: no quote, no price
\* history, no check_buy_conditions, no buy order.
C2_CoolingShortCircuits == [][C2_Step]_vars

\* a symbol was skipped on a cooldown set in an earlier run
C2_Witness ==
    /\ runs = 2
    /\ pc[1] \in {"load_cooldown", "summary"}
    /\ buy_results[1] # <<>>
    /\ Last(buy_results[1]).action = "SKIP"
    /\ Last(buy_results[1]).reason = "cooldown"
    /\ calls[1] = {}
    /\ Cooling(Last(buy_results[1]).symbol)
    /\ cooldown[Last(buy_results[1]).symbol].triggered_at < now

---------------------------------------------------------------------------
(* C3 *)

\* C3: while a position is open, the high-water price returned by
\* update_high_price equals the maximum of the seed (the average cost at the
\* first observation) and every price observed since, and so never decreases.
C3_HighWaterIsMaximum ==
    \A s \in Symbols : life[s].open => life[s].ret = life[s].peak

---------------------------------------------------------------------------
(* C4 *)

\* C4: the exit decision is the first rule that matches in the order
\* TAKE_PROFIT, STOP_LOSS, TRAILING_STOP, else HOLD.
C4_FirstMatchingRule ==
    Evaluated(1) =>
        LET h == cur[1].h
            config == get_target_config(h.symbol)
            tp == TakeProfitRule(h, config)
            sl == StopLossRule(h, config)
            ts == TrailingRule(h, cur[1].high, config)
        IN  /\ cur[1].action = "TAKE_PROFIT" <=> tp
            /\ cur[1].action = "STOP_LOSS" <=> ~tp /\ sl
            /\ cur[1].action = "TRAILING_STOP" <=> ~tp /\ ~sl /\ ts
            /\ cur[1].action = "HOLD" <=> ~tp /\ ~sl /\ ~ts

\* take-profit and trailing-stop both match and the exit is TAKE_PROFIT, in a
\* run whose first holding met stop-loss (its sell order failed) while its
\* stored high was past the trailing start, so that its trailing rule matched
\* as well
C4_Witness ==
    /\ Evaluated(1)
    /\ cur[1].action = "TAKE_PROFIT"
    /\ TrailingRule(cur[1].h, cur[1].high, get_target_config(cur[1].h.symbol))
    /\ exit_results[1] # <<>>
    /\ exit_results[1][1].action = "STOP_LOSS_ERROR"
    /\ LET s == exit_results[1][1].symbol
       IN  /\ s # cur[1].h.symbol
           /\ s \in DOMAIN trailing
           /\ (trailing[s] - account[s].avg) * 100
                >= get_target_config(s).trailing_start * account[s].avg

---------------------------------------------------------------------------
(* C5 *)

\* the position of the specification's scenario at price p: average cost
\* 100, trailing start 5 and trailing stop 5
ScenarioHolding(p) ==
    [symbol |-> "", quantity |-> 1, avg_price |-> 100, current_price |-> p,
     pr_n |-> (p - 100) * 100, pr_d |-> 100]

ScenarioConfig ==
    [DefaultConfig EXCEPT !.trailing_start = 5, !.trailing_stop = 5]

\* C5: when neither take-profit nor stop-loss matches, a run sells the
\* position as TRAILING_STOP exactly when the high-water gain has reached
\* trailing_start and the drop from the high has reached trailing_stop, and
\* otherwise holds it without an order; with average cost 100, high 108 and
\* 5/5, price 103 gives HOLD and price 102 gives TRAILING_STOP.
C5_TrailingStopWhenDue ==
    /\ Evaluated(1) =>
         LET h == cur[1].h
             config == get_target_config(h.symbol)
         IN  ~TakeProfitRule(h, config) /\ ~StopLossRule(h, config) =>
               IF TrailingRule(h, cur[1].high, config)
               THEN /\ cur[1].action = "TRAILING_STOP"
                    /\ calls[1] = {<<"sell_market_order", h.symbol>>}
               ELSE /\ cur[1].action = "HOLD"
                    /\ calls[1] = {}
                    /\ account[h.symbol].qty = h.quantity
    /\ ExitDecision(ScenarioHolding(103), 108, ScenarioConfig) = "HOLD"
    /\ ExitDecision(ScenarioHolding(102), 108, ScenarioConfig)
            = "TRAILING_STOP"

\* a second run sells on the trailing stop a position that the first run
\* held while recording its high
C5_Witness ==
    /\ runs = 2
    /\ pc[1] = "load_clear"
    /\ cur[1].action = "TRAILING_STOP"
    /\ cur[1].h.symbol \in DOMAIN trailing
    /\ trailing[cur[1].h.symbol] = cur[1].high
    /\ cur[1].high > cur[1].h.current_price
    /\ account[cur[1].h.symbol].qty = 0
    /\ Len(history) = 0

---------------------------------------------------------------------------
(* C6 *)

\* C6: no entry result exists while the exit phase is in progress; once the
\* entry phase has begun every symbol sold by STOP_LOSS or TRAILING_STOP in
\* this run has its cooldown record; and the entry result of such a symbol is
\* the cooldown SKIP.
C6_FreshCooldownSkips ==
    /\ pc[1] \in ExitPhase => buy_results[1] = <<>>
    /\ pc[1] \in {"load_cooldown", "process_buy", "summary"} =>
         \A s \in Symbols :
            StoppedOut(1, s) /\ get_target_config(s).cooldown_hours > 0 =>
                s \in DOMAIN cooldown
    /\ \A i \in 1..Len(buy_results[1]) :
         LET b == buy_results[1][i]
         IN  StoppedOut(1, b.symbol)
             /\ get_target_config(b.symbol).cooldown_hours > 0 =>
                b.action = "SKIP" /\ b.reason = "cooldown"

\* a symbol stopped out in this run was skipped by its entry check
C6_Witness ==
    /\ pc[1] = "summary"
    /\ \E i \in 1..Len(buy_results[1]) :
         LET b == buy_results[1][i]
         IN  /\ b.reason = "cooldown"
             /\ StoppedOut(1, b.symbol)
             /\ cooldown[b.symbol].triggered_at = now
             /\ cooldown[b.symbol].reason = "STOP_LOSS"

---------------------------------------------------------------------------
(* C7 *)

\* C7 as stated: no symbol sold in the exit phase of a run, by whichever
\* exit, is bought in the entry phase of the same run.
C7_NoReopenAfterAnyExit ==
    \A s \in Symbols : ~(Exited(1, s) /\ Bought(1, s))

\* C7: a symbol sold by STOP_LOSS or TRAILING_STOP in the exit phase of a run
\* is not bought in the entry phase of the same run, and its position stays
\* closed to the end of the run.
C7_NoReopenAfterStop ==
    \A s \in Symbols :
        StoppedOut(1, s) => ~Bought(1, s) /\ account[s].qty = 0

\* a finished run sold one symbol on its trailing stop and left it closed
\* while buying the other
C7_Witness ==
    /\ pc[1] = "idle"
    /\ Len(buy_results[1]) = Len(TARGETS)
    /\ \E s, t \in Symbols :
         /\ \E i \in 1..Len(exit_results[1]) :
                /\ exit_results[1][i].symbol = s
                /\ exit_results[1][i].action = "TRAILING_STOP"
         /\ account[s].qty = 0
         /\ Bought(1, t)

---------------------------------------------------------------------------
(* C8 *)

\* the symbol whose ledger entry the next step of run r works on
Subject(r) ==
    CASE pc[r] = "update_high_price" -> Head(holdings[r]).symbol
      [] pc[r] \in {"clear_trailing_stop_data", "set_cooldown"} ->
            cur[r].h.symbol
      [] pc[r] = "process_buy" -> TARGETS[cur[r].tix].symbol
      [] OTHER -> ""

Entry(data, s) == IF s \in DOMAIN data THEN <<data[s]>> ELSE <<>>

C8_Step ==
    \A r \in Runs :
        pc'[r] # pc[r] =>
            /\ \A s \in Symbols \ {Subject(r)} :
                    /\ Entry(trailing', s) = Entry(trailing, s)
                    /\ Entry(cooldown', s) = Entry(cooldown, s)
            /\ \A s \in DOMAIN trailing \cap DOMAIN trailing' :
                    trailing'[s] >= trailing[s]

\* C8: with two runs in progress, a ledger write by one run changes only the
\* entry of the symbol that run is working on, so no entry written by the
\* other run is erased or reverted, and a stored high never goes down.
C8_NoLostUpdate == [][C8_Step]_vars

---------------------------------------------------------------------------
(* C9 *)

\* C9: at the end of every run a cooldown record exists only for symbols
\* without an open position, so no symbol is both held and cooling.
C9_NoPositionUnderCooldown ==
    pc[1] = "idle" =>
        \A s \in Symbols :
            /\ s \in DOMAIN cooldown => account[s].qty = 0
            /\ ~(account[s].qty > 0 /\ Cooling(s))

\* after a later run: one symbol was stopped out, outlived its cooldown and
\* is held again without a record, while another is still cooling and closed
C9_Witness ==
    /\ pc[1] = "idle"
    /\ runs = 2
    /\ \E s, t \in Symbols :
         /\ \E i, j \in 1..Len(history) :
                /\ i < j
                /\ history[i].symbol = s /\ history[i].action = "STOP_LOSS"
                /\ history[j].symbol = s /\ history[j].action = "BUY"
         /\ account[s].qty > 0
         /\ s \notin DOMAIN cooldown
         /\ Cooling(t)
         /\ account[t].qty = 0

---------------------------------------------------------------------------
(* C10 *)

\* C10: once the handler of a successful exit has finished, and to the end of
\* the run, the trailing-high ledger holds no record for the sold symbol.
C10_ExitClearsTrailing ==
    /\ ExitDone(1) => cur[1].h.symbol \notin DOMAIN trailing
    /\ pc[1] \notin {"load_clear", "clear_trailing_stop_data"} =>
         \A s \in Symbols : Exited(1, s) => s \notin DOMAIN trailing

\* a take-profit exit has finished for a symbol whose high was stored by an
\* earlier run
C10_Witness ==
    /\ ExitDone(1)
    /\ runs = 2
    /\ cur[1].action = "TAKE_PROFIT"
    /\ cur[1].high > cur[1].h.current_price
    /\ cur[1].h.symbol \notin DOMAIN trailing

---------------------------------------------------------------------------
(* C11 *)

C11_Step ==
    /\ pc'[1] = "summary" =>
            \A s \in DOMAIN trailing' : account'[s].qty > 0
    /\ pc[1] = "update_high_price"
       /\ ~life[Head(holdings[1]).symbol].open
       /\ Evaluated(1)' =>
            cur'[1].high = Max(cur'[1].h.avg_price, cur'[1].h.current_price)

\* C11: when a run has done all its exit and entry work, the trailing-high
\* ledger holds records only for symbols with an open position, and the
\* first exit evaluation of a position returns a high-water price seeded
\* from that position's average cost: max(avg_cost, current price).
C11_RecordOnlyWhileHeld == [][C11_Step]_vars

---------------------------------------------------------------------------
(* C12 *)

\* the scout precondition as stated: breakout, scout entry enabled, an RSI
\* value below the scout floor
ScoutDue(a) ==
    /\ a.strategy = "breakout"
    /\ a.scout_enabled
    /\ a.rsi.some
    /\ a.rsi.n < a.scout_rsi * a.rsi.d

\* C12: for a breakout symbol with the scout entry enabled, every RSI value
\* below scout_rsi, RSI 0 included, yields a BUY of kind SCOUT whatever the
\* price and the short average are (insufficient-data short average, price
\* at or below it, overbought ceiling are all overridden).
C12_ScoutOverridesAll ==
    out.fn = "check_buy_conditions" /\ ScoutDue(arg) =>
        out.sig.buy /\ out.sig.type = "SCOUT"

---------------------------------------------------------------------------
(* C13 *)

\* the kind of buy the pullback rules allow for arguments a
PullbackKind(a) ==
    IF a.sma_20.n = 0 \/ a.current_price * a.sma_20.d >= a.sma_20.n
    THEN "NONE"
    ELSE IF a.use_sma60 /\ a.sma_60.some /\ a.sma_60.n > 0
            /\ a.current_price * a.sma_60.d < a.sma_60.n
    THEN "NONE"
    ELSE "REGULAR"

\* C13: for strategy pullback check_buy_conditions returns no-buy whenever
\* sma_20 is 0 or the price is at or above sma_20 (for any RSI and long
\* average), no-buy when use_sma60 is set, sma_60 > 0 and the price is below
\* sma_60, and a REGULAR buy in every remaining case.
C13_PullbackRule ==
    out.fn = "check_buy_conditions" /\ arg.strategy = "pullback" =>
        /\ out.sig.type = PullbackKind(arg)
        /\ out.sig.buy <=> PullbackKind(arg) = "REGULAR"

\* the long-trend filter refuses price 90 under sma_20 100 and sma_60 95,
\* and the same price is bought without the filter
C13_Witness ==
    /\ out.fn = "check_buy_conditions"
    /\ arg.strategy = "pullback"
    /\ arg.current_price = 90
    /\ arg.sma_20 = Rat(100, 1)
    /\ arg.sma_60 = Rat(95, 1)
    /\ arg.use_sma60
    /\ ~out.sig.buy
    /\ check_buy_conditions(90, Rat(100, 1), "pullback", None, None, FALSE,
                            0, FALSE, 40).type = "REGULAR"

---------------------------------------------------------------------------
(* C14 *)

\* a regular breakout buy is refused for arguments a
BreakoutBlocked(a) ==
    \/ a.sma_20.n = 0
    \/ a.current_price * a.sma_20.d <= a.sma_20.n
    \/ a.max_rsi # 0 /\ a.rsi.some /\ a.rsi.n >= a.max_rsi * a.rsi.d

\* C14: for strategy breakout, when the scout override does not apply,
\* check_buy_conditions returns no-buy when sma_20 is 0, when the price is
\* at or below sma_20, or when a ceiling is set and rsi >= ceiling, and a
\* REGULAR buy otherwise; a REGULAR breakout buy is never signaled with
\* rsi at or above the configured ceiling.
C14_BreakoutRule ==
    out.fn = "check_buy_conditions" /\ arg.strategy = "breakout" =>
        /\ ~ScoutDue(arg) =>
                /\ out.sig.buy <=> ~BreakoutBlocked(arg)
                /\ out.sig.type = IF BreakoutBlocked(arg) THEN "NONE"
                                  ELSE "REGULAR"
        /\ out.sig.type = "REGULAR" /\ arg.max_rsi # 0 /\ arg.rsi.some =>
                arg.rsi.n < arg.max_rsi * arg.rsi.d

\* a price above the short average is refused at RSI 80 under ceiling 70
C14_Witness ==
    /\ out.fn = "check_buy_conditions"
    /\ arg.strategy = "breakout"
    /\ ~ScoutDue(arg)
    /\ arg.current_price = 105
    /\ arg.sma_20 = Rat(100, 1)
    /\ arg.rsi = Rat(80, 1)
    /\ arg.max_rsi = 70
    /\ out.sig = [buy |-> FALSE, reason |-> "overbought", type |-> "NONE"]

---------------------------------------------------------------------------
(* C15 *)

\* the closes process_buy fetches for the call described by a
Fetched(a) ==
    get_daily_prices(a.h, DaysNeeded(get_target_config(a.symbol)))

\* the fetched history is too short for an indicator the symbol uses
TooShort(a) ==
    LET config == get_target_config(a.symbol)
    IN  \/ Len(Fetched(a)) < 20
        \/ config.use_sma60 /\ Len(Fetched(a)) < 60
        \/ config.max_rsi # 0 /\ Len(Fetched(a)) < 15

\* the call ended without a buy signal: neither the buying power was asked
\* for nor an order submitted
NoBuySignal(o, symbol) ==
    /\ <<"get_order_amount", symbol>> \notin o.calls
    /\ <<"buy_market_order", symbol>> \notin o.calls
    /\ o.res.action \notin {"BUY", "NO_BALANCE"}

\* C15: whenever the fetched price history is too short for an indicator
\* that the symbol's strategy uses (fewer than 20 closes for the short
\* average, fewer than 60 for the long-trend filter when use_sma60 is set,
\* fewer than 15 for RSI), the indicator returns its sentinel and the entry
\* evaluation signals no buy and submits no order.
C15_ShortHistoryFailsClosed ==
    out.fn = "process_buy" /\ TooShort(arg) =>
        /\ Len(Fetched(arg)) < 20 => calculate_sma(Fetched(arg), 20).n = 0
        /\ Len(Fetched(arg)) < 60 => calculate_sma(Fetched(arg), 60).n = 0
        /\ Len(Fetched(arg)) < 15 =>
                calculate_rsi(Fetched(arg), 14) = Rat(50, 1)
        /\ NoBuySignal(out.o, arg.symbol)

---------------------------------------------------------------------------
(* C16 *)

\* the signal process_buy obtains for the call described by a
EntrySignal(a) ==
    LET config == get_target_config(a.symbol)
        prices == Fetched(a)
    IN  check_buy_conditions(a.q, calculate_sma(prices, 20), config.strategy,
            IF config.use_sma60 THEN calculate_sma(prices, 60) ELSE None,
            IF config.max_rsi # 0 THEN calculate_rsi(prices, 14) ELSE None,
            config.use_sma60, config.max_rsi, config.scout_enabled,
            config.scout_rsi)

\* n = floor(num / den)
IsFloor(n, num, den) == n * den <= num /\ num < (n + 1) * den

\* floor(funds / current_price), funds being the buying power times
\* scout_ratio for a scout buy
Sized(a) ==
    LET config == get_target_config(a.symbol)
    IN  CHOOSE n \in 0..a.f :
            IF EntrySignal(a).type = "SCOUT"
            THEN IsFloor(n, a.f * config.scout_num, config.scout_den * a.q)
            ELSE IsFloor(n, a.f, a.q)

\* C16: when a buy is signaled and the buying power is obtained, the order
\* quantity is floor(funds / current_price), funds scaled by scout_ratio
\* first for a scout buy; a quantity below 1 gives NO_BALANCE with no error
\* and no order; otherwise one market buy for that quantity is submitted.
C16_OrderSizing ==
    /\ out.fn = "process_buy"
    /\ arg.fault \in {"none", "order_insufficient", "order_rejected",
                      "order_transport"}
    /\ EntrySignal(arg).buy
    =>  IF Sized(arg) < 1
        THEN /\ out.o.res.action = "NO_BALANCE"
             /\ out.o.sent = {}
             /\ <<"buy_market_order", arg.symbol>> \notin out.o.calls
             /\ out.o.pos = Flat
        ELSE /\ <<"buy_market_order", arg.symbol>> \in out.o.calls
             /\ arg.fault = "none" =>
                    /\ out.o.res.action = "BUY"
                    /\ out.o.res.quantity = Sized(arg)
                    /\ out.o.pos.qty = Sized(arg)

\* a scout buy with buying power 250 at quote 95 is for one share, and a
\* regular one would be for two
C16_Witness ==
    /\ out.fn = "process_buy"
    /\ arg.f = 250
    /\ arg.q = 95
    /\ out.o.res.action = "BUY"
    /\ out.o.res.buy_type = "SCOUT"
    /\ out.o.res.quantity = 1

---------------------------------------------------------------------------
(* C17 *)

\* C17: when the broker rejects a buy order for insufficient funds,
\* process_buy returns a NO_BALANCE result for the symbol, never ERROR or
\* FAILED, nothing is bought and no error is reported.
C17_RejectionIsNoBalance ==
    out.fn = "process_buy" /\ arg.fault = "order_insufficient" =>
        /\ out.o.res.symbol = arg.symbol
        /\ out.o.res.action = "NO_BALANCE"
        /\ out.o.pos = Flat
        /\ <<"error", arg.symbol>> \notin out.o.sent

\* an order for two shares was submitted and rejected
C17_Witness ==
    /\ out.fn = "process_buy"
    /\ arg.fault = "order_insufficient"
    /\ Sized(arg) = 2
    /\ <<"buy_market_order", arg.symbol>> \in out.o.calls
    /\ out.o.res.action = "NO_BALANCE"

---------------------------------------------------------------------------
(* C18 *)

C18_Step ==
    pc[1] = "process_buy" /\ pc'[1] # "process_buy" =>
        /\ pc'[1] = IF cur[1].tix < Len(TARGETS) THEN "load_cooldown"
                    ELSE "summary"
        /\ Len(buy_results'[1]) = cur[1].tix
        /\ \A i \in 1..cur[1].tix :
                buy_results'[1][i].symbol = TARGETS[i].symbol
        /\ <<"error", TARGETS[cur[1].tix].symbol>> \in sent'[1] =>
                buy_results'[1][cur[1].tix].action = "ERROR"

\* C18: an error raised while processing one target's entry (cooldown
\* check, quote, history, balance or order) ends in a result for that
\* target, ERROR where the error was reported, and the run goes on to the
\* next target, so that the summary is reached with exactly one entry
\* result per configured target, in order.
C18_EntryErrorsIsolated == [][C18_Step]_vars

---------------------------------------------------------------------------
(* C19 *)

C19_Step ==
    pc[1] \in ExitPhase \ {"get_holdings"} /\ pc'[1] \notin ExitPhase =>
        Len(holdings[1]) = 1

\* C19: an error raised while evaluating one holding for exit (a division
\* by an average cost of 0, a failing sell order) does not end the exit
\* evaluation: the exit phase is left only from the last holding that
\* get_holdings listed.
C19_ExitErrorsIsolated == [][C19_Step]_vars

---------------------------------------------------------------------------
(* C20 *)

C20_Step ==
    \* authentication failure, and any error that ends the run
    /\ pc[1] = "idle" /\ runs' > runs /\ pc'[1] = "idle" =>
            <<"fatal", "">> \in sent'[1]
    /\ pc[1] \notin {"idle", "summary"} /\ pc'[1] = "idle" =>
            <<"fatal", "">> \in sent'[1]
    \* an error that ends the exit phase before its last holding
    /\ pc[1] \in ExitPhase \ {"get_holdings"} /\ pc'[1] \notin ExitPhase
       /\ Len(holdings[1]) > 1 => <<"exit_error", "">> \in sent'[1]
    \* a failed sell order
    /\ Len(exit_results'[1]) > Len(exit_results[1])
       /\ Last(exit_results'[1]).action \notin
                {"TAKE_PROFIT", "STOP_LOSS", "TRAILING_STOP"} =>
            <<"sell_error", Last(exit_results'[1]).symbol>> \in sent'[1]
    \* a failed quote, history, buying-power or order request
    /\ Len(buy_results'[1]) > Len(buy_results[1])
       /\ Last(buy_results'[1]).action = "ERROR" =>
            <<"error", Last(buy_results'[1]).symbol>> \in sent'[1]

\* C20: every fatal or per-symbol error of a run (authentication failure,
\* holdings, quote, history or buying-power query failure, buy or sell
\* order failure) has a notification sent by the step that meets it.
C20_EveryErrorNotified == [][C20_Step]_vars

---------------------------------------------------------------------------
(* C21 *)

\* send returns False for every failing notifier and never raises
SendContract ==
    \A c \in NotifierConditions :
        /\ ~send(c).raised
        /\ ~c.webhook \/ c.reply # "200" => ~send(c).ret

C21_Step ==
    \* a run ends at its start only for a failed authentication
    /\ pc[1] = "idle" /\ runs' > runs /\ pc'[1] = "idle" =>
            <<"fatal", "">> \in sent'[1]
    \* a run ends under way only for what main's handler re-raises
    /\ pc[1] \notin {"idle", "summary"} /\ pc'[1] = "idle" =>
            /\ pc[1] = "process_buy"
            /\ Unreadable(loc[1], TARGETS[cur[1].tix].symbol)
    \* every filled order has its result recorded
    /\ account' # account =>
            \/ Len(exit_results'[1]) = Len(exit_results[1]) + 1
            \/ Len(buy_results'[1]) = Len(buy_results[1]) + 1
    \* the summary is followed by the trade-log write
    /\ pc[1] = "summary" /\ pc'[1] = "idle" =>
            history' = save_trade_history(history,
                            exit_results[1] \o buy_results[1])

\* C21: a failing notifier (no webhook, transport error, non-200 answer)
\* never aborts or alters a run: send returns False instead of raising, and
\* whatever the notifier does, a run ends early only for a fatal error,
\* records a result for every order it fills and writes the trade log.
C21_NotifierNeverAlters == []SendContract /\ [][C21_Step]_vars

\* a run has filled a sell, sent its messages and written the trade log,
\* and notifier conditions under which send fails exist
C21_Witness ==
    /\ runs = 1
    /\ pc[1] = "idle"
    /\ <<"summary", "">> \in sent[1]
    /\ history # <<>>
    /\ \E c \in NotifierConditions : c.webhook /\ ~send(c).ret

---------------------------------------------------------------------------
(* C22 *)

C22_Step ==
    runs' > runs /\ <<"fatal", "">> \in sent'[1] =>
        /\ <<"start", "">> \in sent'[1]
        /\ pc'[1] = "idle"
        /\ calls'[1] = {}
        /\ UNCHANGED <<account, trailing, cooldown, history>>

\* C22: if authentication fails, the run sends a notification, ends with
\* the error, makes no broker request (no buy or sell order) and changes no
\* ledger.
C22_AuthFailureIsFatal == [][C22_Step]_vars

\* the second run failed to authenticate after a first run that sold
C22_Witness ==
    /\ runs = 2
    /\ pc[1] = "idle"
    /\ sent[1] = {<<"start", "">>, <<"fatal", "">>}
    /\ calls[1] = {}
    /\ history # <<>>

---------------------------------------------------------------------------
(* C23 *)

\* the keys of an entry that make up its strategy
StrategyFields == {"strategy", "take_profit", "stop_loss"}

\* C23: a target entry with a missing strategy field is a fatal
\* configuration error: the run places no order, sell or buy, for it.
C23_IncompleteTargetIsFatal ==
    /\ out.fn = "get_target_config"
    /\ ~(StrategyFields \subseteq DOMAIN arg.target)
    =>  /\ out.exit = "HOLD"
        /\ <<"buy_market_order", arg.target.symbol>> \notin out.o.calls

---------------------------------------------------------------------------
(* C24 *)

\* the results of run 1 that are to be logged, as records, in order
Logged ==
    LET results == exit_results[1] \o buy_results[1]
        idx == {i \in 1..Len(results) : results[i].action \in LoggedActions}
        Nth(k) == CHOOSE i \in idx : Cardinality({j \in idx : j < i}) = k - 1
    IN  [k \in 1..Cardinality(idx) |->
            [symbol |-> results[Nth(k)].symbol,
             action |-> results[Nth(k)].action,
             quantity |-> results[Nth(k)].quantity]]

\* the log never exceeds the cap and holds only trades
C24_Shape ==
    /\ Len(history) <= 100
    /\ \A i \in 1..Len(history) :
            history[i].action \in
                {"BUY", "TAKE_PROFIT", "STOP_LOSS", "TRAILING_STOP"}

\* a write leaves the most recent (up to 100) of the old records followed
\* by the run's trades: a suffix, so nothing is modified or reordered and
\* only the oldest records go
C24_Step ==
    history' # history =>
        LET all == history \o Logged
            n == IF Len(all) <= 100 THEN Len(all) ELSE 100
        IN  /\ Len(history') = n
            /\ \A i \in 1..n : history'[i] = all[Len(all) - n + i]

\* C24: after any sequence of sequential runs the trade log holds at most
\* 100 records, all of them BUY, TAKE_PROFIT, STOP_LOSS or TRAILING_STOP,
\* and equals the most recent (up to 100) of all such results passed to
\* save_trade_history, in their order; existing records are never modified
\* and only the oldest are dropped.
C24_TradeLogCapped == []C24_Shape /\ [][C24_Step]_vars

\* a full log after two runs that traded: the oldest records are gone and
\* the newest record is one of the second run
C24_Witness ==
    /\ runs = 2
    /\ pc[1] = "idle"
    /\ Len(history) = 100
    /\ history[1].quantity > 2
    /\ Logged # <<>>
    /\ history[100] = Logged[Len(Logged)]

---------------------------------------------------------------------------
(* C25 *)

\* C25: check_cooldown reports not-cooling when the symbol has no record;
\* with a record and elapsed >= cooldown_hours (elapsed exactly equal
\* included, and always for cooldown_hours 0) it deletes that record,
\* leaves the other records as they are and reports not-cooling; otherwise
\* it reports cooling and leaves the ledger unchanged.
C25_CheckCooldown ==
    out.fn = "check_cooldown" =>
        IF arg.symbol \notin DOMAIN arg.data
        THEN ~out.cc.cooling /\ out.cc.data = arg.data
        ELSE IF arg.t - arg.data[arg.symbol].triggered_at
                    >= arg.cooldown_hours
        THEN /\ ~out.cc.cooling
             /\ out.cc.saved
             /\ DOMAIN out.cc.data = DOMAIN arg.data \ {arg.symbol}
             /\ \A s \in DOMAIN out.cc.data : out.cc.data[s] = arg.data[s]
        ELSE out.cc.cooling /\ out.cc.data = arg.data /\ ~out.cc.saved

\* a record of VRT exactly 4 hours old under a cooldown of 4 hours is
\* deleted and the record of ORCL is kept
C25_Witness ==
    /\ out.fn = "check_cooldown"
    /\ arg.symbol = "VRT"
    /\ DOMAIN arg.data = {"VRT", "ORCL"}
    /\ arg.cooldown_hours = 4
    /\ arg.t - arg.data["VRT"].triggered_at = 4
    /\ ~out.cc.cooling
    /\ DOMAIN out.cc.data = {"ORCL"}

---------------------------------------------------------------------------
(* C26 *)

\* the record of s is gone and process_buy has evaluated the entry of s
Released(s) ==
    /\ s \notin DOMAIN cooldown
    /\ buy_results[1] # <<>>
    /\ Last(buy_results[1]).symbol = s
    /\ Last(buy_results[1]).reason = "signal"

---------------------------------------------------------------------------
(* C27 *)

\* run 1 has completed: its summary went to the notifier and its trades to
\* the log
Completed == pc[1] = "idle" /\ <<"summary", "">> \in sent[1]

\* every executed exit of the given kinds has a line in the summary
ExitsSummarised(kinds) ==
    \A i \in 1..Len(exit_results[1]) :
        exit_results[1][i].action \in kinds =>
            <<"exit_line", exit_results[1][i].symbol>> \in sent[1]

EntriesSummarised ==
    \A i \in 1..Len(buy_results[1]) :
        <<"buy_line", buy_results[1][i].symbol>> \in sent[1]

TradesLogged ==
    \A i \in 1..Len(Logged) : \E k \in 1..Len(history) : history[k] = Logged[i]

---------------------------------------------------------------------------
(* C28 *)

\* C28: the profit rate compared with take_profit and stop_loss is the
\* position's unrealized return (current_price - avg_cost) / avg_cost * 100,
\* computed from the current_price and avg_cost used for the high-water
\* update, so a position with avg_cost 100, current_price 111 and
\* take_profit 10 always exits as TAKE_PROFIT.
C28_RateIsUnrealizedReturn ==
    Evaluated(1) /\ cur[1].h.avg_price > 0 =>
        /\ cur[1].h.pr_n * cur[1].h.avg_price =
                (cur[1].h.current_price - cur[1].h.avg_price) * 100
                    * cur[1].h.pr_d
        /\ (/\ cur[1].h.avg_price = 100
            /\ cur[1].h.current_price = 111
            /\ get_target_config(cur[1].h.symbol).take_profit = 10)
                => cur[1].action = "TAKE_PROFIT"

---------------------------------------------------------------------------
(* C29 *)

\* C29: a trailing-high record is created and persisted the first time a
\* symbol is observed as a holding, seeded to avg_cost when there was none,
\* so that after the exit evaluation of a symbol that stays held the ledger
\* has a record for it with high_price >= avg_cost.
C29_RecordPersistedOnFirstSight ==
    Evaluated(1) /\ cur[1].action = "HOLD" =>
        /\ cur[1].h.symbol \in DOMAIN trailing
        /\ trailing[cur[1].h.symbol] >= cur[1].h.avg_price

---------------------------------------------------------------------------
(* C30 *)

RECURSIVE SeqSum(_)
SeqSum(q) == IF q = <<>> THEN 0 ELSE Head(q) + SeqSum(Tail(q))

\* C30: calculate_sma(prices, period) returns 0 whenever
\* len(prices) < period, and otherwise the arithmetic mean of the first
\* `period` elements of prices (the most recent closes), whatever the later
\* elements are.
C30_SimpleMovingAverage ==
    out.fn = "calculate_sma" =>
        IF Len(arg.prices) < arg.period
        THEN out.sma.n = 0
        ELSE /\ out.sma.d > 0
             /\ out.sma.n * arg.period =
                    out.sma.d * SeqSum(SubSeq(arg.prices, 1, arg.period))
             /\ \A q \in SmaSeries :
                    /\ Len(q) >= arg.period
                    /\ SubSeq(q, 1, arg.period) =
                            SubSeq(arg.prices, 1, arg.period)
                    => calculate_sma(q, arg.period) = out.sma

\* the mean of 1 and 2 is returned for a series that goes on with 5, 5
C30_Witness ==
    /\ out.fn = "calculate_sma"
    /\ arg.prices = <<1, 2, 5, 5>>
    /\ arg.period = 2
    /\ out.sma.n * 2 = out.sma.d * 3

---------------------------------------------------------------------------
(* C31 *)

\* the day-over-day changes prices[i] - prices[i+1] of the first n days
Changes(prices, n) == [i \in 1..n |-> prices[i] - prices[i + 1]]

Gains(prices, n) ==
    SeqSum([i \in 1..n |-> IF Changes(prices, n)[i] > 0
                             THEN Changes(prices, n)[i] ELSE 0])

Losses(prices, n) ==
    SeqSum([i \in 1..n |-> IF Changes(prices, n)[i] < 0
                             THEN 0 - Changes(prices, n)[i] ELSE 0])

\* C31: calculate_rsi(prices, period) returns 50 for every series shorter
\* than period + 1, 100 for every series of sufficient length whose first
\* `period` day-over-day changes contain no loss, and otherwise
\* 100 - 100 / (1 + avg_gain / avg_loss), a value in [0, 100).
C31_RelativeStrengthIndex ==
    out.fn = "calculate_rsi" =>
        IF Len(arg.prices) < arg.period + 1
        THEN out.rsi.n = 50 * out.rsi.d
        ELSE IF \A i \in 1..arg.period : Changes(arg.prices, arg.period)[i] >= 0
        THEN out.rsi.n = 100 * out.rsi.d
        ELSE /\ out.rsi.d > 0
             \* rsi = 100 - 100 / (1 + G / L)  <=>  rsi * (G + L) = 100 * G
             /\ out.rsi.n * (Gains(arg.prices, arg.period)
                                + Losses(arg.prices, arg.period))
                    = 100 * Gains(arg.prices, arg.period) * out.rsi.d
             /\ out.rsi.n >= 0
             /\ out.rsi.n < 100 * out.rsi.d

\* gains of 3 and 1 and a loss of 1 over three days give 80
C31_Witness ==
    /\ out.fn = "calculate_rsi"
    /\ arg.prices = <<5, 2, 1, 2>>
    /\ arg.period = 3
    /\ out.rsi.n = 80 * out.rsi.d

---------------------------------------------------------------------------
(* C32 *)

\* this step is run r's exit evaluation submitting a sell order for s
SellSubmitted(r, s) ==
    /\ pc[r] = "update_high_price"
    /\ pc'[r] # pc[r]
    /\ <<"sell_market_order", s>> \in calls'[r]

\* a sell order is submitted only for a position that is still open, that
\* is, for which no sell has been filled before
C32_Step ==
    \A r \in Runs, s \in Symbols : SellSubmitted(r, s) => account[s].qty > 0

\* C32: for one open position at most one sell order is ever submitted, even
\* when two runs overlap: two runs that both read the same holding while its
\* exit condition holds do not both submit a full-quantity market sell.
C32_OneSellPerPosition == [][C32_Step]_vars

---------------------------------------------------------------------------
(* C33 *)

\* this step is process_buy of run 1 returning a result for target s
EntryStep(s) ==
    /\ pc[1] = "process_buy"
    /\ TARGETS[cur[1].tix].symbol = s
    /\ buy_results'[1] # buy_results[1]

\* what process_buy can return, request and buy for a target without a
\* position
FlatOutcomes ==
    [s \in {"VRT", "ORCL"} |->
        {<<o.res, o.calls, o.pos.qty>> :
            o \in {x \in {BuyOutcome(s, get_target_config(s), Flat, q, h, f, fault) :
                            q \in Quotes, h \in Histories, f \in Funds,
                            fault \in Faults} : x.valid}}]

\* for a target that is held and not cooling, the step is one that a target
\* without a position could have taken: the signal is evaluated and a BUY
\* adds to the position
C33_Step ==
    \A s \in {"VRT", "ORCL"} :
        /\ EntryStep(s)
        /\ account[s].qty > 0
        /\ ~check_cooldown(loc[1], s, get_target_config(s).cooldown_hours,
                           now).cooling
        => LET res == Last(buy_results'[1])
           IN  /\ res.symbol = s
               /\ res.reason # "cooldown"
               /\ <<"get_current_price", s>> \in calls'[1]
               /\ <<res, calls'[1], account'[s].qty - account[s].qty>>
                    \in FlatOutcomes[s]
               /\ res.action = "BUY" =>
                    /\ <<"buy_market_order", s>> \in calls'[1]
                    /\ account'[s].qty = account[s].qty + res.quantity
                    /\ res.quantity >= 1

\* C33: entry evaluation does not consult holdings: for a configured symbol
\* that still has an open position after the exit phase and is not cooling,
\* process_buy evaluates the buy signal and, when it is true and funds allow
\* at least one share, submits a further buy order.
C33_EntryIgnoresHoldings == [][C33_Step]_vars

\* VRT, held from the start and kept by the exit phase, has been bought again
C33_Witness ==
    /\ runs = 1
    /\ exit_results[1] = <<>>
    /\ buy_results[1] # <<>>
    /\ Last(buy_results[1]).symbol = "VRT"
    /\ Last(buy_results[1]).action = "BUY"
    /\ account["VRT"].qty = InitQty + Last(buy_results[1]).quantity

---------------------------------------------------------------------------
(* C34 *)

\* this step is run 1's exit evaluation of its next holding, which is s
ExitStep(s) ==
    /\ pc[1] = "update_high_price"
    /\ pc'[1] # pc[1]
    /\ Head(holdings[1]).symbol = s

\* one of the exit rules matches holding h with the default thresholds
DefaultRuleMatches(h, high) ==
    \/ h.pr_n >= 10 * h.pr_d
    \/ h.pr_n <= (-5) * h.pr_d
    \/ /\ (high - h.avg_price) * 100 >= 5 * h.avg_price
       /\ (high - h.current_price) * 100 >= 3 * high

C34_Step ==
    ExitStep("F") =>
        LET config == get_target_config("F")
            h == cur'[1].h
        IN  /\ config.take_profit = 10
            /\ config.stop_loss = -5
            /\ config.trailing_start = 5
            /\ config.trailing_stop = 3
            /\ config.exchange = "NYS"
            /\ config.cooldown_hours = 2
            /\ h.symbol = "F"
            /\ h.quantity = account["F"].qty
            /\ DefaultRuleMatches(h, cur'[1].high)
                    <=> <<"sell_market_order", "F">> \in calls'[1]
            /\ account'["F"].qty # account["F"].qty =>
                    /\ account'["F"].qty = 0
                    /\ Last(exit_results'[1]).symbol = "F"
                    /\ Last(exit_results'[1]).quantity = account["F"].qty

\* C34: exit evaluation covers every holding the broker reports, not only
\* configured targets: for a held symbol absent from TARGETS,
\* get_target_config supplies the default thresholds (take-profit 10,
\* stop-loss -5, trailing 5/3, exchange NYS, cooldown 2h) and a sell order
\* for the full quantity is submitted when one of the exit rules matches.
C34_UnconfiguredHoldingExits == [][C34_Step]_vars

\* F has been sold on the default trailing rule
C34_Witness ==
    /\ exit_results[1] # <<>>
    /\ Last(exit_results[1]).symbol = "F"
    /\ Last(exit_results[1]).action = "TRAILING_STOP"
    /\ Last(exit_results[1]).quantity = InitQty
    /\ account["F"].qty = 0

---------------------------------------------------------------------------
(* C35 *)

SellErrors == {"TAKE_PROFIT_ERROR", "STOP_LOSS_ERROR", "TRAILING_STOP_ERROR",
               "TAKE_PROFIT_FAILED", "STOP_LOSS_FAILED", "TRAILING_STOP_FAILED"}

\* this step is run 1's exit evaluation of s, whose sell order was submitted
\* and not filled
SellFailed(s) ==
    /\ ExitStep(s)
    /\ <<"sell_market_order", s>> \in calls'[1]
    /\ account'[s] = account[s]

\* the failed sell leaves the cooldown ledger alone, keeps the trailing
\* record, returns an error action and leaves the position open
C35_Frame ==
    \A s \in Symbols :
        SellFailed(s) =>
            /\ cooldown' = cooldown
            /\ s \in DOMAIN trailing => s \in DOMAIN trailing'
            /\ \A x \in DOMAIN trailing \ {s} :
                    x \in DOMAIN trailing' /\ trailing'[x] = trailing[x]
            /\ Len(exit_results'[1]) = Len(exit_results[1]) + 1
            /\ Last(exit_results'[1]).symbol = s
            /\ Last(exit_results'[1]).action \in SellErrors
            /\ account' = account
            /\ history' = history

\* the write of the trade log adds no record for a result of a failed sell
C35_Log ==
    pc[1] = "summary" /\ pc'[1] = "idle" =>
        LET results == exit_results[1] \o buy_results[1]
        IN  Len(history') - Len(history) =
                Cardinality({i \in 1..Len(results) :
                                results[i].action \notin SellErrors
                                    \cup {"SKIP", "NO_BALANCE", "ERROR"}})

\* a holdings request that is answered lists every open position, so the
\* exit of a position whose sell failed is evaluated again
C35_Again ==
    pc[1] = "get_holdings" /\ pc'[1] = "load_trailing" =>
        \A s \in Symbols :
            account[s].qty > 0 =>
                \E i \in 1..Len(holdings'[1]) : holdings'[1][i].symbol = s

\* C35: when the sell order for an exit raises or reports failure, the
\* symbol's cooldown entry is unchanged, its trailing-high record is not
\* deleted, the result action is <TYPE>_ERROR or <TYPE>_FAILED, no record
\* for it is appended to the trade log, and the exit is evaluated again in
\* the next run.
C35_FailedSellChangesNothing ==
    [][C35_Frame /\ C35_Log /\ C35_Again]_vars

\* a run has completed after the stop-loss sell of VRT raised: VRT is still
\* held and the log is empty
C35_Witness ==
    /\ Completed
    /\ exit_results[1] # <<>>
    /\ exit_results[1][1].symbol = "VRT"
    /\ exit_results[1][1].action = "STOP_LOSS_ERROR"
    /\ account["VRT"].qty > 0
    /\ history = <<>>

---------------------------------------------------------------------------
(* C36 *)

\* the holdings request of run 1 has just failed
HoldingsFailed ==
    /\ pc[1] \in {"load_cooldown", "idle"}
    /\ <<"exit_error", "">> \in sent[1]
    /\ calls[1] = {<<"get_holdings", "">>}

\* the failing request sells nothing, changes no ledger and notifies
C36_Step ==
    pc[1] = "get_holdings" /\ HoldingsFailed' =>
        /\ account' = account
        /\ trailing' = trailing
        /\ cooldown' = cooldown
        /\ exit_results'[1] = <<>>
        /\ \A s \in Symbols : <<"sell_market_order", s>> \notin calls'[1]
        /\ pc'[1] = "load_cooldown"

\* run 1 has completed with a result for every configured target, in order
AllTargetsEvaluated ==
    /\ Completed
    /\ Len(buy_results[1]) = Len(TARGETS)
    /\ \A i \in 1..Len(TARGETS) : buy_results[1][i].symbol = TARGETS[i].symbol
    /\ \A i \in 1..Len(TARGETS) :
            <<"buy_line", TARGETS[i].symbol>> \in sent[1]

\* C36: if the holdings query fails at the start of the exit phase, no sell
\* order is submitted and no trailing or cooldown entry is changed, a
\* notification is sent, and the run still proceeds to entry evaluation for
\* every configured target and completes with a summary.
C36_HoldingsFailureIsContained ==
    [][C36_Step]_vars /\ (HoldingsFailed ~> AllTargetsEvaluated)

\* the request failed while VRT was held and in a cooldown
C36_Witness ==
    /\ HoldingsFailed
    /\ pc[1] = "load_cooldown"
    /\ account["VRT"].qty > 0

---------------------------------------------------------------------------
(* C37 *)

OrderFunctions == {"buy_market_order", "sell_market_order", "buy_limit_order"}

---------------------------------------------------------------------------
(* C38 *)

\* C38: for the same symbol, current price, short average, long average and
\* RSI, the buy signal shown by the dashboard equals the buy decision of the
\* engine's check_buy_conditions with that symbol's configuration.
C38_DashboardShowsEngineDecision ==
    out.fn = "dashboard" => (out.shown <=> out.sig.buy)

=============================================================================
